---- MODULE Spec2Model ----
(***************************************************************************)
(* Multilinear polynomials in evaluation form, the Fiat-Shamir transcript, *)
(* the two sumcheck protocols, the arithmetic circuit and the password     *)
(* variant of Shamir secret sharing of the zk-impl workspace, over a small *)
(* prime field.                                                            *)
(*                                                                         *)
(* The specifications that share the module:                               *)
(*   SpecML   applies the operations of MultilinearPolynomial to inputs    *)
(*            drawn from bounded sets;                                     *)
(*   SpecSC   runs prove / verify of sumcheck_over_multilinear.rs;         *)
(*   SpecSOP  runs prove / verify of prover.rs and verifier.rs over a      *)
(*            SumPolynomial;                                               *)
(*   SpecCK   evaluates circuits and builds their wiring polynomials;      *)
(*   SpecTR   drives transcripts; SpecMO chains polynomial operations;     *)
(*   SpecCP   builds and reduces product and sum polynomials;              *)
(*   SpecCO   calls the methods of one Circuit object;                     *)
(*   SpecPR   runs the two provers to their end;                           *)
(*   SpecSS   runs shares of sss_with_password.rs.                         *)
(* The hash behind the transcript is a function the model does not know:   *)
(* its value at a byte string is chosen when the string is first hashed    *)
(* and kept in `oracle`, so equal strings always hash to equal digests.    *)
(***************************************************************************)
EXTENDS Integers, Sequences, FiniteSets, TLC

VARIABLES
    ml_poly,      \* SpecML: evals of the polynomial the operation is applied to
    ml_op,        \* SpecML: "init" or the name of the operation applied
    ml_args,      \* SpecML: the argument of the operation (points list or point)
    ml_res,       \* SpecML: what the operation returned (ok = FALSE: it panicked)
    oracle,       \* the hash: byte string -> digest, for the strings hashed so far
    sc_poly,      \* SpecSC: the polynomial given to prove
    sc_sum,       \* SpecSC: the claimed sum given to prove
    pr_pc,        \* SpecSC: position of prove ("idle", "round", "done")
    pr_cur,       \* SpecSC: prove's working polynomial
    pr_rounds,    \* SpecSC: round polynomials pushed so far
    pr_tr,        \* SpecSC: prove's transcript (bytes in the hasher)
    vf_poly,      \* SpecSC: the polynomial given to verify
    vf_proof,     \* SpecSC: the SumcheckProof given to verify
    vf_pc,        \* SpecSC: position of verify ("idle", "round", "oracle", "done")
    vf_tr,        \* SpecSC: verify's transcript
    vf_cs,        \* SpecSC: verify's running claimed_sum
    vf_ch,        \* SpecSC: challenges pushed so far
    vf_log,       \* SpecSC: [checks, evals]: round checks and oracle evaluations done
    vf_res,       \* SpecSC: "none", "accept", "reject"
    sop_poly,     \* SpecSOP: the SumPolynomial given to prove and verify
    sp_pc,        \* SpecSOP: position of prove ("idle", "round", "done", "panic")
    sp_cur,       \* SpecSOP: partial_prove's working sum polynomial
    sp_out,       \* SpecSOP: [claimed_sum, round_polys, challenges] built by prove
    sp_tr,        \* SpecSOP: prove's transcript
    sv_in,        \* SpecSOP: [claimed_sum, round_polys] given to verify
    sv_pc,        \* SpecSOP: position of verify ("idle", "round", "oracle", "done")
    sv_tr,        \* SpecSOP: verify's transcript
    sv_cs,        \* SpecSOP: partial_verify's current_sum
    sv_ch,        \* SpecSOP: challenges pushed so far
    sv_res,       \* SpecSOP: "none", "accept", "reject", "panic"
    ck_op,        \* SpecCK: "circuit", "layer", "index" (inputs drawn) or the operation applied
    ck_layers,    \* SpecCK: the circuit's layers, L_0 first; a layer is its gates
    ck_input,     \* SpecCK: the input vector handed to evaluate
    ck_res,       \* SpecCK: [ok, layer_evals, ret] after Circuit::evaluate
    wr_layer,     \* SpecCK: the layer add_i_and_mul_i_polynomials is called on
    wr_args,      \* SpecCK: <<layer_index, output_index, left_index, right_index>>
    wr_res,       \* SpecCK: what the wiring operation returned
    tr_pc,        \* SpecTR: which transcript applies the last operation next ("t1" = a new one)
    tr_ops,       \* SpecTR: the operations applied to transcript 1 so far
    tr_h1,        \* SpecTR: hasher of transcript 1 (bytes absorbed since its last reset)
    tr_h2,        \* SpecTR: hasher of transcript 2, driven by the same operations
    tr_h3,        \* SpecTR: hasher of transcript 3, given the same bytes one per append
    tr_out1,      \* SpecTR: what the squeezes of transcript 1 returned
    tr_out2,      \* SpecTR: what the squeezes of transcript 2 returned
    tr_out3,      \* SpecTR: what the squeezes of transcript 3 returned
    mo_cur,       \* SpecMO: evals of the polynomial the operations are chained on
    mo_last,      \* SpecMO: [op, ok, arg]: the last operation, whether it returned, its operand length
    cp_op,        \* SpecCP: "product", "sum" (input drawn) or the operation applied
    cp_in,        \* SpecCP: the vector handed to ProductPolynomial::new / SumPolynomial::new
    cp_res,       \* SpecCP: [ok, polys] or [ok, evals]: what the operation returned
    co_layers,    \* SpecCO: the layers handed to Circuit::new, then the circuit's layers
    co_evals,     \* SpecCO: the circuit's layer_evals field
    co_inputs,    \* SpecCO: the inputs of the evaluate calls that returned, oldest first
    co_last,      \* SpecCO: [op, ok, arg, out]: the last call, whether it returned, what it returned
    ss_in,        \* SpecSS: [secret, password, num_shares, threshold] given to shares
    ss_pc,        \* SpecSS: position of shares ("loop", "done")
    ss_poly,      \* SpecSS: coefficients of the polynomial of the last loop iteration
    ss_shares     \* SpecSS: the shares vector

mlVars == <<ml_poly, ml_op, ml_args, ml_res>>
scVars == <<sc_poly, sc_sum, pr_pc, pr_cur, pr_rounds, pr_tr,
            vf_poly, vf_proof, vf_pc, vf_tr, vf_cs, vf_ch, vf_log, vf_res>>
sopVars == <<sop_poly, sp_pc, sp_cur, sp_out, sp_tr, sv_in, sv_pc, sv_tr, sv_cs, sv_ch, sv_res>>
ckVars == <<ck_op, ck_layers, ck_input, ck_res, wr_layer, wr_args, wr_res>>
trVars == <<tr_pc, tr_ops, tr_h1, tr_h2, tr_h3, tr_out1, tr_out2, tr_out3>>
moVars == <<mo_cur, mo_last>>
cpVars == <<cp_op, cp_in, cp_res>>
coVars == <<co_layers, co_evals, co_inputs, co_last>>
ssVars == <<ss_in, ss_pc, ss_poly, ss_shares>>
auxVars == <<coVars, ssVars>>
extVars == <<ckVars, trVars, moVars, cpVars, auxVars>>
coreVars == <<mlVars, scVars, sopVars>>
vars == <<mlVars, oracle, scVars, sopVars, extVars>>

----------------------------------------------------------------------------
(* Bounds of the model *)

\* largest number of variables of a polynomial drawn as an input
MaxVars == 2

\* longest points list handed to partial_evaluate_many_vars
MaxPoints == 2

----------------------------------------------------------------------------
(* The field F: PrimeField, instantiated at a small odd prime *)

Modulus == 3

F == 0 .. (Modulus - 1)

FAdd(a, b) == (a + b) % Modulus
FSub(a, b) == (a - b + Modulus) % Modulus
FMul(a, b) == (a * b) % Modulus
FNeg(a) == (Modulus - a) % Modulus
\* F::ONE.div(a): a is never zero where the code divides
FInv(a) == CHOOSE b \in F : FMul(a, b) = 1 % Modulus

\* F::from(i as u64)
FFrom(i) == i % Modulus

Pow2(k) == 2 ^ k

\* usize::ilog2 for lengths >= 1
RECURSIVE ILog2(_)
ILog2(len) == IF len <= 1 THEN 0 ELSE 1 + ILog2(len \div 2)


\* iter().sum() over field elements
RECURSIVE SumSeq(_)
SumSeq(s) == IF s = <<>> THEN 0 ELSE FAdd(Head(s), SumSeq(Tail(s)))

\* values the entries of an input evaluation table are drawn from
EvalVals == {0, 1}

\* evaluation tables of n variables
Tables(n) == [1 .. Pow2(n) -> EvalVals]

AllTables == UNION {Tables(n) : n \in 0 .. MaxVars}

----------------------------------------------------------------------------
(* MultilinearPolynomial (evaluation form).  A polynomial is its `evals`   *)
(* sequence; index i of the code is position i + 1 here.  An operation     *)
(* that can panic returns [ok, evals] or [ok, val], ok = FALSE for panic.  *)

Panic == [ok |-> FALSE, evals |-> <<>>]

n_vars(evals) == ILog2(Len(evals))

\* usize::is_power_of_two: false for 0
is_power_of_two(len) == len >= 1 /\ Pow2(ILog2(len)) = len

new_unchecked(evals) == [ok |-> TRUE, evals |-> evals]

\* MultilinearPolynomial::new, with its assert
new(evals) ==
    IF ~is_power_of_two(Len(evals)) THEN Panic ELSE [ok |-> TRUE, evals |-> evals]

scalar_mul(evals, scalar) == [k \in 1 .. Len(evals) |-> FMul(evals[k], scalar)]

\* one iteration of the loop body of partial_evaluate_many_vars, after the assert
FixVarMsbLast(evals, cur_n, value, var_index) ==
    LET stride == Pow2(var_index)
        chunk_size == stride * 2
    IN [k \in 1 .. (Len(evals) \div 2) |->
          LET c == (k - 1) \div stride
              i == (k - 1) % stride
              y1 == evals[c * chunk_size + i + 1]
              y2 == evals[c * chunk_size + i + stride + 1]
          IN IF value = 0 THEN y1
             ELSE IF value = 1 THEN y2
             ELSE FAdd(y1, FMul(FSub(y2, y1), value))]

FixVarFirst(evals, cur_n, value, var_index) ==
    LET stride == Pow2(cur_n - 1)
        chunk_size == stride * 2
    IN [k \in 1 .. (Len(evals) \div 2) |->
          LET c == (k - 1) \div stride
              i == (k - 1) % stride
              y1 == evals[c * chunk_size + i + 1]
              y2 == evals[c * chunk_size + i + stride + 1]
          IN IF value = 0 THEN y1
             ELSE IF value = 1 THEN y2
             ELSE FAdd(y1, FMul(FSub(y2, y1), value))]

FixVar(evals, cur_n, value, var_index) ==
    LET stride == Pow2(cur_n - var_index - 1)
        chunk_size == stride * 2
    IN [k \in 1 .. (Len(evals) \div 2) |->
          LET c == (k - 1) \div stride
              i == (k - 1) % stride
              y1 == evals[c * chunk_size + i + 1]
              y2 == evals[c * chunk_size + i + stride + 1]
          IN IF value = 0 THEN y1
             ELSE IF value = 1 THEN y2
             ELSE FAdd(y1, FMul(FSub(y2, y1), value))]

\* insert p before the entries whose index is <= p's (reverses equal keys)
RECURSIVE InsertDescUnstable(_, _)
InsertDescUnstable(sorted, p) ==
    IF sorted = <<>> THEN <<p>>
    ELSE IF Head(sorted)[2] > p[2]
         THEN <<Head(sorted)>> \o InsertDescUnstable(Tail(sorted), p)
         ELSE <<p>> \o sorted

\* insert p after the entries whose index is >= p's (keeps equal keys in order)
RECURSIVE InsertDesc(_, _)
InsertDesc(sorted, p) ==
    IF sorted = <<>> THEN <<p>>
    ELSE IF Head(sorted)[2] >= p[2] THEN <<Head(sorted)>> \o InsertDesc(Tail(sorted), p)
    ELSE <<p>> \o sorted

RECURSIVE SortFrom(_, _)
SortFrom(acc, rest) ==
    IF rest = <<>> THEN acc ELSE SortFrom(InsertDesc(acc, Head(rest)), Tail(rest))

SortUnsorted(points) == points

\* points_sorted.sort_by_key(|&(_, idx)| Reverse(idx)): stable, descending index
SortByReverseIndex(points) == SortFrom(<<>>, points)

\* the loop with its assert comparing against one variable fewer
RECURSIVE FixLoopStrictBound(_, _, _)
FixLoopStrictBound(evals, cur_n, sorted) ==
    IF sorted = <<>> THEN new(evals)
    ELSE IF ~(Head(sorted)[2] + 1 < cur_n) THEN Panic
    ELSE FixLoopStrictBound(FixVar(evals, cur_n, Head(sorted)[1], Head(sorted)[2]),
                            cur_n - 1, Tail(sorted))

\* the for loop over points_sorted, with its per-step assert
RECURSIVE FixLoop(_, _, _)
FixLoop(evals, cur_n, sorted) ==
    IF sorted = <<>> THEN new(evals)
    ELSE IF ~(Head(sorted)[2] < cur_n) THEN Panic
    ELSE FixLoop(FixVar(evals, cur_n, Head(sorted)[1], Head(sorted)[2]),
                 cur_n - 1, Tail(sorted))

HasRepeatedIndex(points) ==
    \E i, j \in 1 .. Len(points) : i < j /\ points[i][2] = points[j][2]

partial_evaluate_many_vars_unique(evals, points) ==
    IF ~(Len(points) <= n_vars(evals)) THEN Panic
    ELSE IF HasRepeatedIndex(points) THEN Panic
    ELSE FixLoop(evals, n_vars(evals), SortByReverseIndex(points))

partial_evaluate_many_vars(evals, points) ==
    IF ~(Len(points) <= n_vars(evals)) THEN Panic
    ELSE FixLoop(evals, n_vars(evals), SortByReverseIndex(points))

partial_evaluate(evals, point, var_index) ==
    partial_evaluate_many_vars(evals, << <<point, var_index>> >>)

NoVal == [ok |-> FALSE, val |-> 0]

evaluate(evals, points) ==
    IF Len(points) # n_vars(evals) THEN NoVal
    ELSE LET r == partial_evaluate_many_vars(evals,
                      [k \in 1 .. Len(points) |-> <<points[k], 0>>])
         IN IF r.ok THEN [ok |-> TRUE, val |-> r.evals[1]] ELSE NoVal

\* el.into_bigint().to_bytes_be(): one byte holds an element of this field
ElementBytes(e) == <<e>>

RECURSIVE FlatBytes(_)
FlatBytes(elems) ==
    IF elems = <<>> THEN <<>> ELSE ElementBytes(Head(elems)) \o FlatBytes(Tail(elems))

to_bytes(evals) == FlatBytes(evals)

----------------------------------------------------------------------------
(* SpecML: one operation of MultilinearPolynomial applied to drawn inputs *)

SeqsUpTo(S, n) == UNION {[1 .. k -> S] : k \in 0 .. n}

\* (value, variable index) pairs, the index possibly out of range
PointPairs == F \X (0 .. MaxVars)

InitML ==
    /\ ml_poly \in AllTables
    /\ ml_op = "init"
    /\ ml_args = <<>>
    /\ ml_res = Panic

DoPartialEvaluate ==
    /\ ml_op = "init"
    /\ \E x \in F, v \in 0 .. MaxVars :
          /\ ml_args' = << <<x, v>> >>
          /\ ml_res' = partial_evaluate(ml_poly, x, v)
    /\ ml_op' = "partial_evaluate"
    /\ UNCHANGED <<ml_poly, oracle, scVars, sopVars, extVars>>

DoPartialEvaluateMany ==
    /\ ml_op = "init"
    /\ \E points \in SeqsUpTo(PointPairs, MaxPoints) :
          /\ ml_args' = points
          /\ ml_res' = partial_evaluate_many_vars(ml_poly, points)
    /\ ml_op' = "partial_evaluate_many_vars"
    /\ UNCHANGED <<ml_poly, oracle, scVars, sopVars, extVars>>

DoEvaluate ==
    /\ ml_op = "init"
    /\ \E pt \in SeqsUpTo(F, MaxVars) :
          /\ ml_args' = pt
          /\ LET r == evaluate(ml_poly, pt)
             IN ml_res' = [ok |-> r.ok, evals |-> IF r.ok THEN <<r.val>> ELSE <<>>]
    /\ ml_op' = "evaluate"
    /\ UNCHANGED <<ml_poly, oracle, scVars, sopVars, extVars>>

----------------------------------------------------------------------------
(* DenseUnivariatePolynomial: a polynomial is its `coefficients` sequence, *)
(* lowest power first                                                      *)

\* coefficients.iter().rev().cloned().reduce(|acc, curr| acc * x + curr)
RECURSIVE Horner(_, _, _)
Horner(acc, rest, x) ==
    IF rest = <<>> THEN acc
    ELSE Horner(FAdd(FMul(acc, x), rest[Len(rest)]), SubSeq(rest, 1, Len(rest) - 1), x)

uni_evaluate(coeffs, x) ==
    Horner(coeffs[Len(coeffs)], SubSeq(coeffs, 1, Len(coeffs) - 1), x)

uni_degree(coeffs) == Len(coeffs) - 1

uni_scalar_mul(coeffs, scalar) == [k \in 1 .. Len(coeffs) |-> FMul(coeffs[k], scalar)]

\* impl Mul for &DenseUnivariatePolynomial
uni_mul(a, b) ==
    [k \in 1 .. (uni_degree(a) + uni_degree(b) + 1) |->
        SumSeq([i \in 1 .. Len(a) |->
                  IF k - i + 1 \in 1 .. Len(b) THEN FMul(a[i], b[k - i + 1]) ELSE 0])]

\* impl Add for &DenseUnivariatePolynomial
uni_add(a, b) ==
    LET bigger == IF uni_degree(a) < uni_degree(b) THEN b ELSE a
        smaller == IF uni_degree(a) < uni_degree(b) THEN a ELSE b
    IN [k \in 1 .. Len(bigger) |->
          IF k <= Len(smaller) THEN FAdd(bigger[k], smaller[k]) ELSE bigger[k]]

\* impl Product: the product of (X - x') over the x' of the set other than x
RECURSIVE Numerators(_, _, _)
Numerators(acc, x, set) ==
    IF set = <<>> THEN acc
    ELSE IF Head(set) # x
         THEN Numerators(uni_mul(acc, <<FNeg(Head(set)), 1>>), x, Tail(set))
         ELSE Numerators(acc, x, Tail(set))

basis(x, interpolating_set) ==
    LET numerators == Numerators(<<1>>, x, interpolating_set)
        denominator == FInv(uni_evaluate(numerators, x))
    IN uni_scalar_mul(numerators, denominator)

\* impl Sum over the scaled basis polynomials
RECURSIVE InterpolateSum(_, _, _, _)
InterpolateSum(acc, k, xs, ys) ==
    IF k > Len(xs) THEN acc
    ELSE InterpolateSum(uni_add(acc, uni_scalar_mul(basis(xs[k], xs), ys[k])),
                        k + 1, xs, ys)

interpolate(xs, ys) == InterpolateSum(<<0>>, 1, xs, ys)

\* interpolate through the abscissae 0, 1, .., |ys| - 1
interpolate_y(ys) == interpolate([k \in 1 .. Len(ys) |-> FFrom(k - 1)], ys)

coefficients_slice(coeffs) == coeffs

\* concatenation of each coefficient's big-endian bytes
uni_to_bytes(coeffs) == FlatBytes(coeffs)

----------------------------------------------------------------------------
(* Transcript<F, Keccak256>: the hasher holds the bytes absorbed since it  *)
(* was last reset                                                          *)

\* digests the hash can return: one more value than the field has elements,
\* so that from_be_bytes_mod_order reduces
Digests == 0 .. Modulus

NewTranscript == <<>>

append(tr, data) == tr \o data

append_field_element(tr, element) == append(tr, ElementBytes(element))

\* F::from_be_bytes_mod_order(hash)
from_be_bytes_mod_order(h) == h % Modulus

\* a hasher keyed per instance: the digest of the same bytes may differ
HashesSalted(tr, h) ==
    oracle' = IF tr \in DOMAIN oracle THEN [oracle EXCEPT ![tr] = h]
              ELSE oracle @@ (tr :> h)

\* a hasher left empty by sample_field_element
ReseededEmpty(h) == NewTranscript

\* finalize_reset: h is the digest of the absorbed bytes, the same one every
\* time the same bytes are hashed
Hashes(tr, h) ==
    IF tr \in DOMAIN oracle
    THEN h = oracle[tr] /\ UNCHANGED oracle
    ELSE oracle' = oracle @@ (tr :> h)

\* the hasher after sample_field_element: reset, then the digest absorbed
Reseeded(h) == append(NewTranscript, <<h>>)

----------------------------------------------------------------------------
(* Sumcheck over one multilinear polynomial (sumcheck_over_multilinear.rs) *)

skip_one_halves_swapped(evals) ==
    LET half == Len(evals) \div 2
        f_0 == SumSeq(SubSeq(evals, half + 1, Len(evals)))
        f_1 == SumSeq(SubSeq(evals, 1, half))
    IN interpolate_y(<<f_0, f_1>>)

skip_one_and_sum_over_boolean_hypercube(evals) ==
    LET half == Len(evals) \div 2
        f_0 == SumSeq(SubSeq(evals, 1, half))
        f_1 == SumSeq(SubSeq(evals, half + 1, Len(evals)))
    IN interpolate_y(<<f_0, f_1>>)

TrueSum(evals) == SumSeq(evals)

\* polynomials that differ from evals in exactly one entry: any entry of a
\* table of up to two variables, the last entry (as the test changes it) of a
\* larger one
SwapsOf(evals) ==
    LET entries == IF n_vars(evals) <= 2 THEN 1 .. Len(evals) ELSE {Len(evals)}
    IN {[evals EXCEPT ![i] = v] : i \in entries, v \in EvalVals} \ {evals}

\* the prover's proof with its list of round polynomials cut or extended
Resized(rounds) ==
    (IF rounds = <<>> THEN {} ELSE {SubSeq(rounds, 1, Len(rounds) - 1)})
    \cup {Append(rounds, <<c, 0>>) : c \in EvalVals}

ScIdle ==
    /\ pr_pc = "idle" /\ pr_cur = <<>> /\ pr_rounds = <<>> /\ pr_tr = <<>>
    /\ vf_poly = <<>> /\ vf_proof = [claimed_sum |-> 0, round_polynomials |-> <<>>]
    /\ vf_pc = "idle" /\ vf_tr = <<>> /\ vf_cs = 0 /\ vf_ch = <<>>
    /\ vf_log = [checks |-> 0, evals |-> 0] /\ vf_res = "none"

MlIdle == ml_poly = <<0>> /\ ml_op = "off" /\ ml_args = <<>> /\ ml_res = Panic

SopIdle ==
    /\ sp_pc = "idle" /\ sp_cur = <<>> /\ sp_tr = <<>>
    /\ sp_out = [claimed_sum |-> 0, round_polys |-> <<>>, challenges |-> <<>>]
    /\ sv_in = [claimed_sum |-> 0, round_polys |-> <<>>]
    /\ sv_pc = "idle" /\ sv_tr = <<>> /\ sv_cs = 0 /\ sv_ch = <<>> /\ sv_res = "none"

SopOff == sop_poly = <<>> /\ SopIdle

NoCircuitResult == [ok |-> FALSE, layer_evals |-> <<>>, ret |-> <<>>]

CkOff ==
    /\ ck_op = "off" /\ ck_layers = <<>> /\ ck_input = <<>> /\ ck_res = NoCircuitResult
    /\ wr_layer = <<>> /\ wr_args = <<>> /\ wr_res = <<>>

TrOff ==
    /\ tr_pc = "off" /\ tr_ops = <<>>
    /\ tr_h1 = <<>> /\ tr_h2 = <<>> /\ tr_h3 = <<>>
    /\ tr_out1 = <<>> /\ tr_out2 = <<>> /\ tr_out3 = <<>>

MoOff == mo_cur = <<>> /\ mo_last = [op |-> "off", ok |-> TRUE, arg |-> 0]

CpOff == cp_op = "off" /\ cp_in = <<>> /\ cp_res = [ok |-> FALSE, out |-> <<>>]

CoOff ==
    /\ co_layers = <<>> /\ co_evals = <<>> /\ co_inputs = <<>>
    /\ co_last = [op |-> "off", ok |-> FALSE, arg |-> <<>>, out |-> <<>>]

SsOff ==
    /\ ss_in = [secret |-> 0, password |-> 0, num_shares |-> 0, threshold |-> 0]
    /\ ss_pc = "off" /\ ss_poly = <<>> /\ ss_shares = <<>>

AuxOff == CoOff /\ SsOff

ExtOff == CkOff /\ TrOff /\ MoOff /\ CpOff /\ AuxOff

ScOff ==
    /\ oracle = <<>> /\ sc_poly = <<>> /\ sc_sum = 0
    /\ ScIdle

InitSC ==
    /\ MlIdle
    /\ SopOff
    /\ ExtOff
    /\ oracle = <<>>
    /\ sc_poly \in AllTables
    /\ sc_sum \in F
    /\ ScIdle

\* prove, up to the loop
ProveStart ==
    /\ pr_pc = "idle"
    /\ sc_poly # <<>>
    /\ pr_tr' = append(append_field_element(NewTranscript, sc_sum), to_bytes(sc_poly))
    /\ pr_cur' = sc_poly
    /\ pr_rounds' = <<>>
    /\ pr_pc' = IF n_vars(sc_poly) = 0 THEN "done" ELSE "round"
    /\ UNCHANGED <<mlVars, extVars, sopVars, oracle, sc_poly, sc_sum,
                   vf_poly, vf_proof, vf_pc, vf_tr, vf_cs, vf_ch, vf_log, vf_res>>

\* one iteration of prove's loop
ProveRound ==
    /\ pr_pc = "round"
    /\ LET round_polynomial == skip_one_and_sum_over_boolean_hypercube(pr_cur)
           tr1 == append(pr_tr, FlatBytes(coefficients_slice(round_polynomial)))
       IN \E h \in Digests :
            /\ Hashes(tr1, h)
            /\ pr_tr' = Reseeded(h)
            /\ pr_rounds' = Append(pr_rounds, round_polynomial)
            /\ pr_cur' = partial_evaluate(pr_cur, from_be_bytes_mod_order(h), 0).evals
            /\ pr_pc' = IF Len(pr_rounds) + 1 = n_vars(sc_poly) THEN "done" ELSE "round"
    /\ UNCHANGED <<mlVars, extVars, sopVars, sc_poly, sc_sum,
                   vf_poly, vf_proof, vf_pc, vf_tr, vf_cs, vf_ch, vf_log, vf_res>>

ArityMismatchIgnored(proof, polynomial) == FALSE

\* proof.round_polynomials.len() != polynomial.n_vars()
ArityMismatch(proof, polynomial) ==
    Len(proof.round_polynomials) # n_vars(polynomial)

RoundCheckSkipped(claimed_sum, p_0, p_1) == FALSE

\* claimed_sum != p_0 + p_1
RoundCheckFails(claimed_sum, p_0, p_1) == claimed_sum # FAdd(p_0, p_1)

OracleCheckSkipped(claimed_sum, polynomial, challenges) == FALSE

\* claimed_sum != polynomial.evaluate(&challenges)
OracleCheckFails(claimed_sum, polynomial, challenges) ==
    claimed_sum # evaluate(polynomial, challenges).val

\* verify, up to the loop, on the polynomial and proof the caller hands it
VerifyEnter(polynomial, proof) ==
    /\ vf_poly' = polynomial
    /\ vf_proof' = proof
    /\ IF ArityMismatch(proof, polynomial)
       THEN /\ vf_res' = "reject"
            /\ vf_pc' = "done"
            /\ UNCHANGED <<vf_tr, vf_cs, vf_ch>>
       ELSE /\ vf_tr' = append(append_field_element(NewTranscript, proof.claimed_sum),
                               to_bytes(polynomial))
            /\ vf_cs' = proof.claimed_sum
            /\ vf_ch' = <<>>
            /\ vf_res' = "none"
            /\ vf_pc' = IF proof.round_polynomials = <<>> THEN "oracle" ELSE "round"
    /\ UNCHANGED <<mlVars, extVars, sopVars, oracle, sc_poly, sc_sum, pr_pc, pr_cur, pr_rounds, pr_tr, vf_log>>

ProverProof == [claimed_sum |-> sc_sum, round_polynomials |-> pr_rounds]

\* verify(P, prove(P, s))
VerifyHonest ==
    /\ pr_pc = "done" /\ vf_pc = "idle"
    /\ VerifyEnter(sc_poly, ProverProof)

\* verify(P', prove(P, s)) for a polynomial P' other than P and the true sum s
VerifySwapped ==
    /\ pr_pc = "done" /\ vf_pc = "idle"
    /\ sc_sum = TrueSum(sc_poly)
    /\ \E q \in SwapsOf(sc_poly) : VerifyEnter(q, ProverProof)

\* verify(P, proof) for a proof with more or fewer round polynomials
VerifyResized ==
    /\ pr_pc = "done" /\ vf_pc = "idle"
    /\ \E rounds \in Resized(pr_rounds) :
          VerifyEnter(sc_poly, [claimed_sum |-> sc_sum, round_polynomials |-> rounds])

\* one iteration of verify's loop
VerifyRound ==
    /\ vf_pc = "round"
    /\ LET round_polynomial == vf_proof.round_polynomials[Len(vf_ch) + 1]
           p_0 == uni_evaluate(round_polynomial, 0)
           p_1 == uni_evaluate(round_polynomial, 1)
       IN /\ vf_log' = [vf_log EXCEPT !.checks = @ + 1]
          /\ IF RoundCheckFails(vf_cs, p_0, p_1)
             THEN /\ vf_res' = "reject"
                  /\ vf_pc' = "done"
                  /\ UNCHANGED <<oracle, vf_tr, vf_cs, vf_ch>>
             ELSE \E h \in Digests :
                    /\ Hashes(append(vf_tr, uni_to_bytes(round_polynomial)), h)
                    /\ vf_tr' = Reseeded(h)
                    /\ vf_cs' = uni_evaluate(round_polynomial, from_be_bytes_mod_order(h))
                    /\ vf_ch' = Append(vf_ch, from_be_bytes_mod_order(h))
                    /\ vf_res' = "none"
                    /\ vf_pc' = IF Len(vf_ch) + 1 = Len(vf_proof.round_polynomials)
                                THEN "oracle" ELSE "round"
    /\ UNCHANGED <<mlVars, extVars, sopVars, sc_poly, sc_sum, pr_pc, pr_cur, pr_rounds, pr_tr,
                   vf_poly, vf_proof>>

\* the oracle check that ends verify
VerifyOracle ==
    /\ vf_pc = "oracle"
    /\ vf_log' = [vf_log EXCEPT !.evals = @ + 1]
    /\ vf_res' = IF OracleCheckFails(vf_cs, vf_poly, vf_ch) THEN "reject" ELSE "accept"
    /\ vf_pc' = "done"
    /\ UNCHANGED <<mlVars, extVars, sopVars, oracle, sc_poly, sc_sum, pr_pc, pr_cur, pr_rounds, pr_tr,
                   vf_poly, vf_proof, vf_tr, vf_cs, vf_ch>>

NextSC ==
    \/ ProveStart
    \/ ProveRound
    \/ VerifyHonest
    \/ VerifySwapped
    \/ VerifyResized
    \/ VerifyRound
    \/ VerifyOracle

SpecSC == InitSC /\ [][NextSC]_vars

----------------------------------------------------------------------------

InitMLFull == InitML /\ ScOff /\ SopOff /\ ExtOff

NextML ==
    \/ DoPartialEvaluate
    \/ DoPartialEvaluateMany
    \/ DoEvaluate

SpecML == InitMLFull /\ [][NextML]_vars

----------------------------------------------------------------------------
(* ProductPolynomial and SumPolynomial (composed/product.rs, composed/sum.rs). *)
(* A product is the sequence of its factors' evals, a sum the sequence of its  *)
(* products.                                                                   *)

\* tensor_add / tensor_mul, with their assert on equal lengths
tensor_add(a, b) ==
    IF Len(a) # Len(b) THEN Panic
    ELSE [ok |-> TRUE, evals |-> [k \in 1 .. Len(a) |-> FAdd(a[k], b[k])]]

\* the entries added where tensor_mul multiplies them
tensor_mul_added(a, b) ==
    IF Len(a) # Len(b) THEN Panic
    ELSE [ok |-> TRUE, evals |-> [k \in 1 .. Len(a) |-> FAdd(a[k], b[k])]]

tensor_mul(a, b) ==
    IF Len(a) # Len(b) THEN Panic
    ELSE [ok |-> TRUE, evals |-> [k \in 1 .. Len(a) |-> FMul(a[k], b[k])]]

\* ProductPolynomial::new and SumPolynomial::new: every polynomial has the
\* number of variables of the first one
ProductShapeOk(polys) == \A k \in 1 .. Len(polys) : n_vars(polys[k]) = n_vars(polys[1])

SumShapeOk(products) ==
    \A i \in 1 .. Len(products) : \A k \in 1 .. Len(products[i]) :
        n_vars(products[i][k]) = n_vars(products[1][1])

product_degree(polys) == Len(polys)

sum_degree(products) == product_degree(products[1])

\* the number of variables the sum polynomial was built with
sum_n_vars(products) == n_vars(products[1][1])

RECURSIVE ProductOfEvals(_, _)
ProductOfEvals(polys, points) ==
    IF polys = <<>> THEN [ok |-> TRUE, val |-> 1 % Modulus]
    ELSE LET e == evaluate(Head(polys), points)
             rest == ProductOfEvals(Tail(polys), points)
         IN IF e.ok /\ rest.ok THEN [ok |-> TRUE, val |-> FMul(e.val, rest.val)] ELSE NoVal

product_evaluate(polys, points) == ProductOfEvals(polys, points)

RECURSIVE SumOfEvals(_, _)
SumOfEvals(products, points) ==
    IF products = <<>> THEN [ok |-> TRUE, val |-> 0]
    ELSE LET e == product_evaluate(Head(products), points)
             rest == SumOfEvals(Tail(products), points)
         IN IF e.ok /\ rest.ok THEN [ok |-> TRUE, val |-> FAdd(e.val, rest.val)] ELSE NoVal

sum_evaluate(products, points) == SumOfEvals(products, points)

\* factor-wise partial evaluation; ok = FALSE when a factor's call panics
product_partial_evaluate(polys, point, var_index) ==
    LET rs == [k \in 1 .. Len(polys) |-> partial_evaluate(polys[k], point, var_index)]
        out == [k \in 1 .. Len(polys) |-> rs[k].evals]
    IN IF (\A k \in 1 .. Len(polys) : rs[k].ok) /\ ProductShapeOk(out)
       THEN [ok |-> TRUE, polys |-> out]
       ELSE [ok |-> FALSE, polys |-> <<>>]

\* the products handed back with no variable fixed
sum_partial_evaluate_kept(products, point, var_index) ==
    [ok |-> TRUE, products |-> products]

sum_partial_evaluate(products, point, var_index) ==
    LET rs == [i \in 1 .. Len(products) |->
                 product_partial_evaluate(products[i], point, var_index)]
        out == [i \in 1 .. Len(products) |-> rs[i].polys]
    IN IF (\A i \in 1 .. Len(products) : rs[i].ok) /\ SumShapeOk(out)
       THEN [ok |-> TRUE, products |-> out]
       ELSE [ok |-> FALSE, products |-> <<>>]

\* ProductPolynomial::new: polynomials[0] panics on an empty vector
product_new(polynomials) ==
    IF polynomials = <<>> \/ ~ProductShapeOk(polynomials)
    THEN [ok |-> FALSE, out |-> <<>>]
    ELSE [ok |-> TRUE, out |-> polynomials]

\* SumPolynomial::new on a vector of product polynomials: product_polynomials[0]
\* panics on an empty vector
sum_new(product_polynomials) ==
    IF product_polynomials = <<>> \/ ~SumShapeOk(product_polynomials)
    THEN [ok |-> FALSE, out |-> <<>>]
    ELSE [ok |-> TRUE, out |-> product_polynomials]

RECURSIVE FoldMul(_, _)
FoldMul(acc, rest) ==
    IF rest = <<>> \/ ~acc.ok THEN acc
    ELSE FoldMul(tensor_mul(acc.evals, Head(rest)), Tail(rest))

element_wise_mul_unchecked(polys) ==
    FoldMul([ok |-> TRUE, evals |-> polys[1]], Tail(polys))

\* ProductPolynomial::element_wise_mul, with its assert on two factors
element_wise_mul(polys) ==
    IF ~(Len(polys) > 1) THEN Panic
    ELSE FoldMul([ok |-> TRUE, evals |-> polys[1]], Tail(polys))

RECURSIVE FoldAdd(_, _)
FoldAdd(acc, rest) ==
    IF rest = <<>> \/ ~acc.ok THEN acc
    ELSE LET curr == element_wise_mul(Head(rest))
         IN IF curr.ok THEN FoldAdd(tensor_add(acc.evals, curr.evals), Tail(rest))
            ELSE Panic

\* SumPolynomial::element_wise_add, with its assert on two products
element_wise_add(products) ==
    IF ~(Len(products) > 1) THEN Panic
    ELSE FoldAdd(element_wise_mul(products[1]), Tail(products))

\* ProductPolynomial::reduce and SumPolynomial::reduce: the evals as a vector
product_reduce(polys) ==
    [ok |-> element_wise_mul(polys).ok, out |-> element_wise_mul(polys).evals]

sum_reduce(products) ==
    [ok |-> element_wise_add(products).ok, out |-> element_wise_add(products).evals]

RECURSIVE ConcatBytes(_)
ConcatBytes(polys) ==
    IF polys = <<>> THEN <<>> ELSE to_bytes(Head(polys)) \o ConcatBytes(Tail(polys))

product_to_bytes(polys) == ConcatBytes(polys)

RECURSIVE sum_to_bytes(_)
sum_to_bytes(products) ==
    IF products = <<>> THEN <<>>
    ELSE product_to_bytes(Head(products)) \o sum_to_bytes(Tail(products))

----------------------------------------------------------------------------
(* Sumcheck over a sum of products (prover.rs, verifier.rs) *)

\* factor tables drawn as inputs: every table up to one variable, and from two
\* variables on the all-ones table and the indicator tables of one index (of
\* every index for two variables, of the first and the last for more)
FactorTables(n) ==
    IF n <= 1 THEN Tables(n)
    ELSE {[k \in 1 .. Pow2(n) |-> 1]}
         \cup {[k \in 1 .. Pow2(n) |-> IF k = i THEN 1 ELSE 0] :
                  i \in (IF n = 2 THEN 1 .. Pow2(n) ELSE {1, Pow2(n)})}

\* sums of two products of two factors
SumPolynomials == UNION {[1 .. 2 -> [1 .. 2 -> FactorTables(n)]] : n \in 0 .. MaxVars}

InitSOP ==
    /\ MlIdle
    /\ ScOff
    /\ ExtOff
    /\ sop_poly \in SumPolynomials
    /\ SopIdle

\* one evaluation fewer: U(0), .., U(d - 1)
RoundEvalsShort(products) ==
    [k \in 1 .. sum_degree(products) |->
        SumSeq(element_wise_add(
                   sum_partial_evaluate(products, FFrom(k - 1), 0).products).evals)]

\* the evaluations U(0), .., U(d) of the round polynomial of `products`
RoundEvals(products) ==
    [k \in 1 .. (sum_degree(products) + 1) |->
        SumSeq(element_wise_add(
                   sum_partial_evaluate(products, FFrom(k - 1), 0).products).evals)]

\* prove, and partial_prove up to its loop
SopProveStart ==
    /\ sp_pc = "idle"
    /\ sop_poly # <<>>
    /\ sp_cur' = sop_poly
    /\ sp_out' = [claimed_sum |-> SumSeq(element_wise_add(sop_poly).evals),
                  round_polys |-> <<>>, challenges |-> <<>>]
    /\ sp_tr' = append_field_element(append(NewTranscript, sum_to_bytes(sop_poly)),
                                     SumSeq(element_wise_add(sop_poly).evals))
    /\ sp_pc' = IF ~element_wise_add(sop_poly).ok THEN "panic"
                ELSE IF sum_n_vars(sop_poly) = 0 THEN "done" ELSE "round"
    /\ UNCHANGED <<mlVars, extVars, scVars, oracle, sop_poly,
                   sv_in, sv_pc, sv_tr, sv_cs, sv_ch, sv_res>>

\* one iteration of partial_prove's loop
SopProveRound ==
    /\ sp_pc = "round"
    /\ LET round_polynomial == interpolate_y(RoundEvals(sp_cur))
       IN \E h \in Digests :
            /\ Hashes(append(sp_tr, uni_to_bytes(round_polynomial)), h)
            /\ sp_tr' = Reseeded(h)
            /\ sp_out' = [sp_out EXCEPT
                             !.round_polys = Append(@, round_polynomial),
                             !.challenges = Append(@, from_be_bytes_mod_order(h))]
            /\ sp_cur' = sum_partial_evaluate(sp_cur, from_be_bytes_mod_order(h), 0).products
            /\ sp_pc' = IF Len(sp_out.round_polys) + 1 = sum_n_vars(sop_poly)
                        THEN "done" ELSE "round"
    /\ UNCHANGED <<mlVars, extVars, scVars, sop_poly, sv_in, sv_pc, sv_tr, sv_cs, sv_ch, sv_res>>

\* verify, and partial_verify up to its loop, on the proof the caller hands it
SopVerifyEnter(claimed_sum, round_polynomials) ==
    /\ sv_in' = [claimed_sum |-> claimed_sum, round_polys |-> round_polynomials]
    /\ sv_cs' = claimed_sum
    /\ sv_ch' = <<>>
    /\ IF round_polynomials = <<>>
       THEN /\ sv_tr' = append(NewTranscript, sum_to_bytes(sop_poly))
            /\ sv_res' = "reject"
            /\ sv_pc' = "done"
       ELSE /\ sv_tr' = append_field_element(
                            append(NewTranscript, sum_to_bytes(sop_poly)), claimed_sum)
            /\ sv_res' = "none"
            /\ sv_pc' = "round"
    /\ UNCHANGED <<mlVars, extVars, scVars, oracle, sop_poly, sp_pc, sp_cur, sp_out, sp_tr>>

\* verify(S, claimed_sum, round_polys) on what prove(S) returned
SopVerifyHonest ==
    /\ sp_pc = "done" /\ sv_pc = "idle"
    /\ SopVerifyEnter(sp_out.claimed_sum, sp_out.round_polys)

\* the prover's list of round polynomials cut by one or extended by one
SopResized(rounds) ==
    (IF rounds = <<>> THEN {} ELSE {SubSeq(rounds, 1, Len(rounds) - 1)})
    \cup {Append(rounds, <<c, 0>>) : c \in EvalVals}

\* verify(S, claimed_sum, round_polys) on a list of another length
SopVerifyResized ==
    /\ sp_pc = "done" /\ sv_pc = "idle"
    /\ \E rounds \in SopResized(sp_out.round_polys) :
          SopVerifyEnter(sp_out.claimed_sum, rounds)

\* one iteration of partial_verify's loop
SopVerifyRound ==
    /\ sv_pc = "round"
    /\ LET round_polynomial == sv_in.round_polys[Len(sv_ch) + 1]
           p_0 == uni_evaluate(round_polynomial, 0)
           p_1 == uni_evaluate(round_polynomial, 1)
       IN IF sv_cs # FAdd(p_0, p_1)
          THEN /\ sv_res' = "reject"
               /\ sv_pc' = "done"
               /\ UNCHANGED <<oracle, sv_tr, sv_cs, sv_ch>>
          ELSE \E h \in Digests :
                 /\ Hashes(append(sv_tr, uni_to_bytes(round_polynomial)), h)
                 /\ sv_tr' = Reseeded(h)
                 /\ sv_cs' = uni_evaluate(round_polynomial, from_be_bytes_mod_order(h))
                 /\ sv_ch' = Append(sv_ch, from_be_bytes_mod_order(h))
                 /\ sv_res' = "none"
                 /\ sv_pc' = IF Len(sv_ch) + 1 = Len(sv_in.round_polys)
                             THEN "oracle" ELSE "round"
    /\ UNCHANGED <<mlVars, extVars, scVars, sop_poly, sp_pc, sp_cur, sp_out, sp_tr, sv_in>>

\* the end of verify: sum_polynomial.evaluate(&challenges) and the oracle check
SopVerifyOracle ==
    /\ sv_pc = "oracle"
    /\ LET derived_sum == sum_evaluate(sop_poly, sv_ch)
       IN sv_res' = IF ~derived_sum.ok THEN "panic"
                    ELSE IF sv_cs = derived_sum.val THEN "accept" ELSE "reject"
    /\ sv_pc' = "done"
    /\ UNCHANGED <<mlVars, extVars, scVars, oracle, sop_poly, sp_pc, sp_cur, sp_out, sp_tr,
                   sv_in, sv_tr, sv_cs, sv_ch>>

NextSOP ==
    \/ SopProveStart
    \/ SopProveRound
    \/ SopVerifyHonest
    \/ SopVerifyResized
    \/ SopVerifyRound
    \/ SopVerifyOracle

SpecSOP == InitSOP /\ [][NextSOP]_vars

----------------------------------------------------------------------------
(* Layered circuit (circuit/src/lib.rs).  A gate is a record [op, output,  *)
(* left_index, right_index], a layer the sequence of its gates, a circuit  *)
(* the sequence of its layers with the output layer first.                 *)

\* most gates of a layer drawn as an input
MaxGates == 2

Ops == {"Add", "Mul"}

Gate(op, output, left_index, right_index) ==
    [op |-> op, output |-> output, left_index |-> left_index, right_index |-> right_index]

\* every gate evaluated as an addition
eval_gate_always_add(gate, layer_eval) ==
    IF gate.left_index >= Len(layer_eval) \/ gate.right_index >= Len(layer_eval)
    THEN NoVal
    ELSE [ok |-> TRUE,
          val |-> FAdd(layer_eval[gate.left_index + 1], layer_eval[gate.right_index + 1])]

\* Gate::eval_gate; indexing past the end of layer_eval panics
eval_gate(gate, layer_eval) ==
    IF gate.left_index >= Len(layer_eval) \/ gate.right_index >= Len(layer_eval)
    THEN NoVal
    ELSE LET left_val == layer_eval[gate.left_index + 1]
             right_val == layer_eval[gate.right_index + 1]
         IN [ok |-> TRUE,
             val |-> IF gate.op = "Add" THEN FAdd(left_val, right_val)
                     ELSE FMul(left_val, right_val)]

\* one output wire per gate
MaxOutputByCount(gates) == IF gates = <<>> THEN 0 ELSE Len(gates) - 1

\* gates.iter().map(|gate| gate.output).max().unwrap_or(0)
RECURSIVE MaxOutput(_)
MaxOutput(gates) ==
    IF gates = <<>> THEN 0
    ELSE LET m == MaxOutput(Tail(gates))
         IN IF Head(gates).output > m THEN Head(gates).output ELSE m

GateWriteOverwrite(evals, gate, val) == [evals EXCEPT ![gate.output + 1] = val]

\* evals[gate.output] += current_gate_eval
GateWrite(evals, gate, val) == [evals EXCEPT ![gate.output + 1] = FAdd(@, val)]

\* the inner for loop of evaluate over the gates of one layer
RECURSIVE GateLoop(_, _, _)
GateLoop(evals, gates, current_layer_eval) ==
    IF gates = <<>> THEN [ok |-> TRUE, evals |-> evals]
    ELSE LET current_gate_eval == eval_gate(Head(gates), current_layer_eval)
         IN IF ~current_gate_eval.ok THEN Panic
            ELSE GateLoop(GateWrite(evals, Head(gates), current_gate_eval.val),
                          Tail(gates), current_layer_eval)

\* one iteration of the outer loop: the evals of a layer from those below it
LayerEvals(gates, current_layer_eval) ==
    GateLoop([o \in 1 .. (MaxOutput(gates) + 1) |-> 0], gates, current_layer_eval)

\* the vectors left in the order they were pushed
NotReversed(s) == s

Reverse(s) == [k \in 1 .. Len(s) |-> s[Len(s) + 1 - k]]

\* the outer loop, over self.layers.iter().rev()
RECURSIVE LayerLoop(_, _, _)
LayerLoop(layers, current_layer_eval, resultant_evals) ==
    IF layers = <<>> THEN [ok |-> TRUE, evals |-> resultant_evals]
    ELSE LET r == LayerEvals(layers[Len(layers)], current_layer_eval)
         IN IF ~r.ok THEN Panic
            ELSE LayerLoop(SubSeq(layers, 1, Len(layers) - 1), r.evals,
                           Append(resultant_evals, r.evals))

\* Circuit::evaluate: layer_evals is the field it writes, ret what it returns
circuit_evaluate(layers, initial_layer_eval) ==
    LET r == LayerLoop(layers, initial_layer_eval, <<initial_layer_eval>>)
    IN IF ~r.ok THEN NoCircuitResult
       ELSE [ok |-> TRUE, layer_evals |-> Reverse(r.evals), ret |-> Reverse(r.evals)[1]]

\* format!("{:b}", v): the binary digits of v, most significant first
RECURSIVE BinaryDigits(_)
BinaryDigits(v) == IF v <= 1 THEN <<v>> ELSE Append(BinaryDigits(v \div 2), v % 2)

\* format!("{:b}", v): no padding at all
PadLeftNone(digits, width) == digits

\* format!("{:0>width$b}", v): zeros on the left up to width, nothing cut off
RECURSIVE PadLeft(_, _)
PadLeft(digits, width) ==
    IF Len(digits) >= width THEN digits ELSE PadLeft(<<0>> \o digits, width)

PaddedBin(v, width) == PadLeft(BinaryDigits(v), width)

\* usize::from_str_radix(&sum, 2); the strings of this model are never empty
\* and stay below the width of usize, so unwrap_or(0) is not reached
RECURSIVE FromStrRadix2(_)
FromStrRadix2(digits) ==
    IF digits = <<>> THEN 0
    ELSE 2 * FromStrRadix2(SubSeq(digits, 1, Len(digits) - 1)) + digits[Len(digits)]

get_positional_index_narrow(layer_index, output_index, left_index, right_index) ==
    FromStrRadix2(PaddedBin(output_index, layer_index)
                  \o PaddedBin(left_index, layer_index)
                  \o PaddedBin(right_index, layer_index))

get_positional_index(layer_index, output_index, left_index, right_index) ==
    FromStrRadix2(PaddedBin(output_index, layer_index)
                  \o PaddedBin(left_index, layer_index + 1)
                  \o PaddedBin(right_index, layer_index + 1))

\* Layer::layer_index, for a layer that has a gate (ilog2 of 0 panics)
layer_index(gates) == ILog2(Len(gates))

num_layer_vars(gates) ==
    IF layer_index(gates) = 0 THEN 3 ELSE 3 * layer_index(gates) + 2

NoWiring == [ok |-> FALSE, add_i |-> <<>>, mul_i |-> <<>>]

SetWireAlways(w, op, positional_index) ==
    [ok |-> TRUE,
     add_i |-> [w.add_i EXCEPT ![positional_index + 1] = 1 % Modulus],
     mul_i |-> [w.mul_i EXCEPT ![positional_index + 1] = 1 % Modulus]]

\* match gate.op { Add => add_i_evals[i] = ONE, Mul => mul_i_evals[i] = ONE }
SetWire(w, op, positional_index) ==
    IF op = "Add"
    THEN [w EXCEPT !.add_i = [@ EXCEPT ![positional_index + 1] = 1 % Modulus]]
    ELSE [w EXCEPT !.mul_i = [@ EXCEPT ![positional_index + 1] = 1 % Modulus]]

\* the for loop of add_i_and_mul_i_polynomials; an index past the tables panics
RECURSIVE WireLoop(_, _, _)
WireLoop(w, gates, index) ==
    IF gates = <<>> THEN w
    ELSE LET g == Head(gates)
             positional_index ==
                 get_positional_index(index, g.output, g.left_index, g.right_index)
         IN IF positional_index >= Len(w.add_i) THEN NoWiring
            ELSE WireLoop(SetWire(w, g.op, positional_index), Tail(gates), index)

\* Layer::add_i_and_mul_i_polynomials
add_i_and_mul_i_polynomials(gates) ==
    IF gates = <<>> THEN NoWiring
    ELSE LET num_boolean_hypercube_evals == Pow2(num_layer_vars(gates))
             zeros == [k \in 1 .. num_boolean_hypercube_evals |-> 0]
         IN WireLoop([ok |-> TRUE, add_i |-> zeros, mul_i |-> zeros],
                     gates, layer_index(gates))

----------------------------------------------------------------------------
(* SpecCK: Circuit::evaluate, add_i_and_mul_i_polynomials and              *)
(* get_positional_index applied to drawn inputs                            *)

\* gates drawn for the layer at position i of a circuit: both kinds, outputs
\* 0 and 1, operands the first pair of wires and from layer 1 on the second
GatePool(i) ==
    {Gate(op, out, lr[1], lr[2]) :
        op \in Ops, out \in 0 .. 1,
        lr \in (IF i = 0 THEN {<<0, 1>>} ELSE {<<0, 1>>, <<2, 3>>})}

\* circuits of one or two layers
Circuits ==
    {<<l0>> : l0 \in SeqsUpTo(GatePool(0), MaxGates)}
    \cup {<<l0, l1>> : l0 \in SeqsUpTo(GatePool(0), MaxGates),
                       l1 \in SeqsUpTo(GatePool(1), MaxGates)}

CircuitInputs == {<<1, 2>>, <<2, 1, 1, 2>>, <<1, 1, 2, 0>>}

\* gates drawn for a layer whose wiring tables are asked for: left operand an
\* odd wire, right operand any of the first four
WiringGates ==
    {Gate(op, out, l, r) : op \in Ops, out \in 0 .. 1, l \in {1, 3}, r \in 0 .. 3}

\* the layers of 2^i gates in which gate j reads wires 2j and 2j + 1
PairingLayers(i) ==
    {[j \in 1 .. Pow2(i) |-> Gate(ops[j], j - 1, 2 * (j - 1), 2 * (j - 1) + 1)] :
        ops \in [1 .. Pow2(i) -> Ops]}

WiringLayers ==
    SeqsUpTo(WiringGates, MaxGates) \cup UNION {PairingLayers(i) : i \in 0 .. MaxVars}

\* arguments of get_positional_index: in range, and one past the range; up to
\* layer index 2 every value, beyond it the ends of each range
IndexArgs ==
    UNION {{<<i, out, l, r>> :
               out \in (IF i <= 2 THEN 0 .. Pow2(i) ELSE {0, Pow2(i) - 1, Pow2(i)}),
               l \in (IF i <= 2 THEN 0 .. Pow2(i + 1)
                      ELSE {0, 1, Pow2(i + 1) - 1, Pow2(i + 1)}),
               r \in (IF i <= 2 THEN 0 .. Pow2(i + 1)
                      ELSE {0, 1, Pow2(i + 1) - 1, Pow2(i + 1)})} : i \in 0 .. MaxVars}

InitCK ==
    /\ MlIdle /\ ScOff /\ SopOff /\ AuxOff
    /\ TrOff /\ MoOff /\ CpOff
    /\ wr_res = <<>>
    /\ ck_res = NoCircuitResult
    /\ \/ /\ ck_op = "circuit"
          /\ ck_layers \in Circuits
          /\ ck_input \in CircuitInputs
          /\ wr_layer = <<>> /\ wr_args = <<>>
       \/ /\ ck_op = "layer"
          /\ wr_layer \in WiringLayers
          /\ ck_layers = <<>> /\ ck_input = <<>> /\ wr_args = <<>>
       \/ /\ ck_op = "index"
          /\ wr_args \in IndexArgs
          /\ ck_layers = <<>> /\ ck_input = <<>> /\ wr_layer = <<>>

CkEvaluate ==
    /\ ck_op = "circuit"
    /\ ck_res' = circuit_evaluate(ck_layers, ck_input)
    /\ ck_op' = "evaluate"
    /\ UNCHANGED <<coreVars, auxVars, oracle, trVars, moVars, cpVars, ck_layers, ck_input,
                   wr_layer, wr_args, wr_res>>

WrAddMul ==
    /\ ck_op = "layer"
    /\ wr_res' = add_i_and_mul_i_polynomials(wr_layer)
    /\ ck_op' = "add_i_and_mul_i_polynomials"
    /\ UNCHANGED <<coreVars, auxVars, oracle, trVars, moVars, cpVars, ck_layers, ck_input, ck_res,
                   wr_layer, wr_args>>

WrIndex ==
    /\ ck_op = "index"
    /\ wr_res' = get_positional_index(wr_args[1], wr_args[2], wr_args[3], wr_args[4])
    /\ ck_op' = "get_positional_index"
    /\ UNCHANGED <<coreVars, auxVars, oracle, trVars, moVars, cpVars, ck_layers, ck_input, ck_res,
                   wr_layer, wr_args>>

NextCK ==
    \/ CkEvaluate
    \/ WrAddMul
    \/ WrIndex

SpecCK == InitCK /\ [][NextCK]_vars

----------------------------------------------------------------------------
(* SpecTR: three transcripts created with new().  Transcript 1 is driven   *)
(* by drawn operations, transcript 2 by the same operations, transcript 3  *)
(* by the same bytes handed over one byte per append call.                 *)

\* most operations applied to a transcript
MaxOps == 3

\* bytes the data handed to append is drawn from
DataBytes == {0, 1}

TranscriptOps ==
    {[kind |-> "append", data |-> d, element |-> 0] : d \in SeqsUpTo(DataBytes, 2)}
    \cup {[kind |-> "append_field_element", data |-> <<>>, element |-> e] : e \in F}
    \cup {[kind |-> "sample_field_element", data |-> <<>>, element |-> 0]}

\* append called once per byte of data
RECURSIVE AppendEach(_, _)
AppendEach(tr, data) ==
    IF data = <<>> THEN tr ELSE AppendEach(append(tr, <<Head(data)>>), Tail(data))

InitTR ==
    /\ MlIdle /\ ScOff /\ SopOff /\ AuxOff
    /\ CkOff /\ MoOff /\ CpOff
    /\ tr_pc = "t1" /\ tr_ops = <<>>
    /\ tr_h1 = NewTranscript /\ tr_h2 = NewTranscript /\ tr_h3 = NewTranscript
    /\ tr_out1 = <<>> /\ tr_out2 = <<>> /\ tr_out3 = <<>>

\* append or append_field_element on transcript 1
TrAbsorb1 ==
    /\ tr_pc = "t1" /\ Len(tr_ops) < MaxOps
    /\ \E op \in TranscriptOps :
          /\ op.kind # "sample_field_element"
          /\ tr_ops' = Append(tr_ops, op)
          /\ tr_h1' = IF op.kind = "append" THEN append(tr_h1, op.data)
                      ELSE append_field_element(tr_h1, op.element)
    /\ tr_pc' = "t2"
    /\ UNCHANGED <<coreVars, auxVars, oracle, ckVars, moVars, cpVars,
                   tr_h2, tr_h3, tr_out1, tr_out2, tr_out3>>

\* sample_field_element on transcript 1
TrSqueeze1 ==
    /\ tr_pc = "t1" /\ Len(tr_ops) < MaxOps
    /\ tr_ops' = Append(tr_ops, [kind |-> "sample_field_element", data |-> <<>>,
                                 element |-> 0])
    /\ \E h \in Digests :
          /\ Hashes(tr_h1, h)
          /\ tr_h1' = Reseeded(h)
          /\ tr_out1' = Append(tr_out1, from_be_bytes_mod_order(h))
    /\ tr_pc' = "t2"
    /\ UNCHANGED <<coreVars, auxVars, ckVars, moVars, cpVars,
                   tr_h2, tr_h3, tr_out2, tr_out3>>

LastOp == tr_ops[Len(tr_ops)]

\* the same append or append_field_element on transcript 2
TrAbsorb2 ==
    /\ tr_pc = "t2" /\ LastOp.kind # "sample_field_element"
    /\ tr_h2' = IF LastOp.kind = "append" THEN append(tr_h2, LastOp.data)
                ELSE append_field_element(tr_h2, LastOp.element)
    /\ tr_pc' = "t3"
    /\ UNCHANGED <<coreVars, auxVars, oracle, ckVars, moVars, cpVars,
                   tr_ops, tr_h1, tr_h3, tr_out1, tr_out2, tr_out3>>

\* sample_field_element on transcript 2
TrSqueeze2 ==
    /\ tr_pc = "t2" /\ LastOp.kind = "sample_field_element"
    /\ \E h \in Digests :
          /\ Hashes(tr_h2, h)
          /\ tr_h2' = Reseeded(h)
          /\ tr_out2' = Append(tr_out2, from_be_bytes_mod_order(h))
    /\ tr_pc' = "t3"
    /\ UNCHANGED <<coreVars, auxVars, ckVars, moVars, cpVars,
                   tr_ops, tr_h1, tr_h3, tr_out1, tr_out3>>

\* the bytes of the last operation appended to transcript 3 one at a time
TrAbsorb3 ==
    /\ tr_pc = "t3" /\ LastOp.kind # "sample_field_element"
    /\ tr_h3' = IF LastOp.kind = "append" THEN AppendEach(tr_h3, LastOp.data)
                ELSE AppendEach(tr_h3, ElementBytes(LastOp.element))
    /\ tr_pc' = "t1"
    /\ UNCHANGED <<coreVars, auxVars, oracle, ckVars, moVars, cpVars,
                   tr_ops, tr_h1, tr_h2, tr_out1, tr_out2, tr_out3>>

\* sample_field_element on transcript 3
TrSqueeze3 ==
    /\ tr_pc = "t3" /\ LastOp.kind = "sample_field_element"
    /\ \E h \in Digests :
          /\ Hashes(tr_h3, h)
          /\ tr_h3' = Reseeded(h)
          /\ tr_out3' = Append(tr_out3, from_be_bytes_mod_order(h))
    /\ tr_pc' = "t1"
    /\ UNCHANGED <<coreVars, auxVars, ckVars, moVars, cpVars,
                   tr_ops, tr_h1, tr_h2, tr_out1, tr_out2>>

NextTR ==
    \/ TrAbsorb1
    \/ TrSqueeze1
    \/ TrAbsorb2
    \/ TrSqueeze2
    \/ TrAbsorb3
    \/ TrSqueeze3

SpecTR == InitTR /\ [][NextTR]_vars

----------------------------------------------------------------------------
(* SpecMO: MultilinearPolynomial::new on a drawn vector, then operations   *)
(* of MultilinearPolynomial chained on what the last one returned          *)

\* vectors handed to new, of every length up to 2^MaxVars: every vector of
\* up to four entries, the all-ones vector and the indicator of the last entry
\* beyond
RawVectors ==
    UNION {IF len <= 4 THEN [1 .. len -> EvalVals]
           ELSE {[k \in 1 .. len |-> 1], [k \in 1 .. len |-> IF k = len THEN 1 ELSE 0]} :
              len \in 0 .. Pow2(MaxVars)}

\* (value, variable index) pairs of the chained partial evaluations
ChainPoints == {p \in PointPairs : p[1] = Modulus - 1}

\* second operands of tensor_add and tensor_mul
Operands == UNION {FactorTables(n) : n \in 0 .. MaxVars}

InitMO ==
    /\ MlIdle /\ ScOff /\ SopOff /\ AuxOff
    /\ CkOff /\ TrOff /\ CpOff
    /\ mo_cur \in RawVectors
    /\ mo_last = [op |-> "raw", ok |-> TRUE, arg |-> 0]

MoNew ==
    /\ mo_last.op = "raw"
    /\ mo_last' = [op |-> "new", ok |-> new(mo_cur).ok, arg |-> Len(mo_cur)]
    /\ UNCHANGED <<coreVars, auxVars, oracle, ckVars, trVars, cpVars, mo_cur>>

\* a polynomial exists and the last call returned
Chaining == mo_last.op # "raw" /\ mo_last.ok

\* the operation op, with operand size arg, returned r
Chained(op, arg, r) ==
    /\ mo_last' = [op |-> op, ok |-> r.ok, arg |-> arg]
    /\ mo_cur' = IF r.ok THEN r.evals ELSE mo_cur
    /\ UNCHANGED <<coreVars, auxVars, oracle, ckVars, trVars, cpVars>>

MoScalarMul ==
    /\ Chaining
    /\ \E scalar \in F :
          Chained("scalar_mul", 1, [ok |-> TRUE, evals |-> scalar_mul(mo_cur, scalar)])

MoPartialEvaluate ==
    /\ Chaining
    /\ \E x \in F, v \in 0 .. MaxVars :
          Chained("partial_evaluate", 1, partial_evaluate(mo_cur, x, v))

MoPartialEvaluateMany ==
    /\ Chaining
    /\ \E points \in SeqsUpTo(ChainPoints, MaxPoints) :
          Chained("partial_evaluate_many_vars", Len(points),
                  partial_evaluate_many_vars(mo_cur, points))

MoTensorAdd ==
    /\ Chaining
    /\ \E other \in Operands : Chained("tensor_add", Len(other), tensor_add(mo_cur, other))

MoTensorMul ==
    /\ Chaining
    /\ \E other \in Operands : Chained("tensor_mul", Len(other), tensor_mul(mo_cur, other))

NextMO ==
    \/ MoNew
    \/ MoScalarMul
    \/ MoPartialEvaluate
    \/ MoPartialEvaluateMany
    \/ MoTensorAdd
    \/ MoTensorMul

SpecMO == InitMO /\ [][NextMO]_vars

----------------------------------------------------------------------------
(* SpecCP: ProductPolynomial::new and SumPolynomial::new on drawn vectors, *)
(* reduce on what they returned, and prove on the sum polynomial           *)

\* vectors of up to two multilinear polynomials, of any numbers of variables
RawProducts == SeqsUpTo(Operands, 2)

\* the product polynomials ProductPolynomial::new returns for them
ValidProducts == {p \in RawProducts : product_new(p).ok}

\* vectors of up to two product polynomials
RawSums == SeqsUpTo(ValidProducts, 2)

InitCP ==
    /\ MlIdle /\ ScOff /\ SopOff /\ AuxOff
    /\ CkOff /\ TrOff /\ MoOff
    /\ cp_res = [ok |-> FALSE, out |-> <<>>]
    /\ \/ cp_op = "product" /\ cp_in \in RawProducts
       \/ cp_op = "sum" /\ cp_in \in RawSums

CpProductNew ==
    /\ cp_op = "product"
    /\ cp_res' = product_new(cp_in)
    /\ cp_op' = "product_new"
    /\ UNCHANGED <<coreVars, auxVars, oracle, ckVars, trVars, moVars, cp_in>>

\* SumPolynomial::new; the polynomial it returns is the one prove is run on
CpSumNew ==
    /\ cp_op = "sum"
    /\ cp_res' = sum_new(cp_in)
    /\ cp_op' = "sum_new"
    /\ sop_poly' = sum_new(cp_in).out
    /\ UNCHANGED <<mlVars, scVars, auxVars, oracle, ckVars, trVars, moVars, cp_in,
                   sp_pc, sp_cur, sp_out, sp_tr, sv_in, sv_pc, sv_tr, sv_cs, sv_ch, sv_res>>

CpProductReduce ==
    /\ cp_op = "product_new" /\ cp_res.ok
    /\ cp_res' = product_reduce(cp_in)
    /\ cp_op' = "product_reduce"
    /\ UNCHANGED <<coreVars, auxVars, oracle, ckVars, trVars, moVars, cp_in>>

CpSumReduce ==
    /\ cp_op = "sum_new" /\ cp_res.ok /\ sp_pc = "idle"
    /\ cp_res' = sum_reduce(cp_in)
    /\ cp_op' = "sum_reduce"
    /\ UNCHANGED <<coreVars, auxVars, oracle, ckVars, trVars, moVars, cp_in>>

\* prove(S) on the sum polynomial that SumPolynomial::new returned
CpProveStart == cp_op = "sum_new" /\ SopProveStart

CpProveRound == cp_op = "sum_new" /\ SopProveRound

NextCP ==
    \/ CpProductNew
    \/ CpSumNew
    \/ CpProductReduce
    \/ CpSumReduce
    \/ CpProveStart
    \/ CpProveRound

SpecCP == InitCP /\ [][NextCP]_vars

----------------------------------------------------------------------------
(* SpecCO: one Circuit object: Circuit::new on drawn layers, then calls of *)
(* evaluate, w_i_polynomial and add_i_and_mul_i_polynomials on it          *)

\* most evaluate calls on one circuit
MaxCalls == 2

\* Circuit::new: 2^(k-1) empty vectors as layer_evals; no layers panics
circuit_new(layers) ==
    IF layers = <<>> THEN [ok |-> FALSE, layer_evals |-> <<>>]
    ELSE [ok |-> TRUE, layer_evals |-> [j \in 1 .. Pow2(Len(layers) - 1) |-> <<>>]]

\* an index past the end answered with the last layer
w_i_polynomial_clamped(layer_evals, index) ==
    IF index >= Len(layer_evals) THEN new(layer_evals[Len(layer_evals)])
    ELSE new(layer_evals[index + 1])

\* Circuit::w_i_polynomial
w_i_polynomial(layer_evals, index) ==
    IF index >= Len(layer_evals) THEN Panic ELSE new(layer_evals[index + 1])

\* Circuit::add_i_and_mul_i_polynomials: self.layers[layer_index] panics past
\* the end
circuit_add_i_and_mul_i_polynomials(layers, index) ==
    IF index >= Len(layers) THEN NoWiring
    ELSE add_i_and_mul_i_polynomials(layers[index + 1])

\* layers drawn for position i of the circuit: no gate, or 2^i gates
CoLayers(i) == {<<>>} \cup [1 .. Pow2(i) -> GatePool(i)]

\* no layer, one layer or two layers
CoCircuits ==
    {<<>>} \cup {<<l0>> : l0 \in CoLayers(0)}
           \cup {<<l0, l1>> : l0 \in CoLayers(0), l1 \in CoLayers(1)}

CoInputs == CircuitInputs \cup {<<1, 2, 1>>}

InitCO ==
    /\ MlIdle /\ ScOff /\ SopOff
    /\ CkOff /\ TrOff /\ MoOff /\ CpOff /\ SsOff
    /\ co_layers \in CoCircuits
    /\ co_evals = <<>>
    /\ co_inputs = <<>>
    /\ co_last = [op |-> "raw", ok |-> TRUE, arg |-> <<>>, out |-> <<>>]

CoNew ==
    /\ co_last.op = "raw"
    /\ co_last' = [op |-> "new", ok |-> circuit_new(co_layers).ok, arg |-> <<>>, out |-> <<>>]
    /\ co_evals' = circuit_new(co_layers).layer_evals
    /\ UNCHANGED <<coreVars, oracle, ckVars, trVars, moVars, cpVars, ssVars,
                   co_layers, co_inputs>>

\* a circuit exists and the last call on it returned
CoLive == co_last.op # "raw" /\ co_last.ok

\* evaluate assigns layer_evals as its last statement; a panic ends the run
CoEvaluate ==
    /\ CoLive
    /\ Len(co_inputs) < MaxCalls
    /\ \E initial_layer_eval \in CoInputs :
          LET r == circuit_evaluate(co_layers, initial_layer_eval)
          IN /\ co_last' = [op |-> "evaluate", ok |-> r.ok,
                            arg |-> initial_layer_eval, out |-> r.ret]
             /\ co_evals' = IF r.ok THEN r.layer_evals ELSE co_evals
             /\ co_inputs' = IF r.ok THEN Append(co_inputs, initial_layer_eval)
                             ELSE co_inputs
    /\ UNCHANGED <<coreVars, oracle, ckVars, trVars, moVars, cpVars, ssVars, co_layers>>

CoWPolynomial ==
    /\ CoLive
    /\ \E index \in 0 .. Len(co_layers) + 1 :
          LET r == w_i_polynomial(co_evals, index)
          IN co_last' = [op |-> "w_i_polynomial", ok |-> r.ok, arg |-> index,
                         out |-> r.evals]
    /\ UNCHANGED <<coreVars, oracle, ckVars, trVars, moVars, cpVars, ssVars,
                   co_layers, co_evals, co_inputs>>

CoAddMul ==
    /\ CoLive
    /\ \E index \in 0 .. Len(co_layers) + 1 :
          LET r == circuit_add_i_and_mul_i_polynomials(co_layers, index)
          IN co_last' = [op |-> "add_i_and_mul_i_polynomials", ok |-> r.ok,
                         arg |-> index, out |-> <<r.add_i, r.mul_i>>]
    /\ UNCHANGED <<coreVars, oracle, ckVars, trVars, moVars, cpVars, ssVars,
                   co_layers, co_evals, co_inputs>>

NextCO ==
    \/ CoNew
    \/ CoEvaluate
    \/ CoWPolynomial
    \/ CoAddMul

SpecCO == InitCO /\ [][NextCO]_vars

----------------------------------------------------------------------------
(* SpecPR: the two provers alone, each loop iteration a step that is taken  *)
(* once it is enabled (the loops are sequential code)                       *)

InitPR == InitSC \/ InitSOP

NextPR ==
    \/ ProveStart
    \/ ProveRound
    \/ SopProveStart
    \/ SopProveRound

\* weak fairness of the two loop bodies, with ENABLED written out: a round
\* action is enabled exactly when its prover is at "round"
RoundFairness ==
    /\ []<>(pr_pc # "round") \/ []<><<ProveRound>>_vars
    /\ []<>(sp_pc # "round") \/ []<><<SopProveRound>>_vars

SpecPR ==
    /\ InitPR /\ [][NextPR]_vars
    /\ WF_vars(ProveStart) /\ WF_vars(SopProveStart)
    /\ RoundFairness


----------------------------------------------------------------------------
(* SpecSS: shares(secret, password, num_shares, threshold) of                *)
(* sss_with_password.rs, one iteration of its retry loop a step              *)

\* largest num_shares drawn
MaxShares == 3

\* thresholds whose abscissae 1 .. threshold - 1 are distinct field elements
Thresholds == 1 .. Modulus

\* xs after the splice: the password, then F::from(i) for i in 1..threshold
SsAbscissae(password, threshold) ==
    <<password>> \o [i \in 1 .. threshold - 1 |-> FFrom(i)]

\* the shares pushed by `for i in 1..num_shares`
SsPushed(poly, num_shares) ==
    [i \in 1 .. num_shares - 1 |-> <<FFrom(i), uni_evaluate(poly, FFrom(i))>>]

InitSS ==
    /\ MlIdle /\ ScOff /\ SopOff
    /\ CkOff /\ TrOff /\ MoOff /\ CpOff /\ CoOff
    /\ ss_in \in [secret : F, password : F, num_shares : 1 .. MaxShares,
                  threshold : Thresholds]
    /\ ss_pc = "call"
    /\ ss_poly = <<>>
    /\ ss_shares = <<>>

\* the call up to the loop: the empty shares vector and the generator
SsEnter ==
    /\ ss_pc = "call"
    /\ ss_shares' = <<>>
    /\ ss_pc' = "loop"
    /\ UNCHANGED <<coreVars, oracle, ckVars, trVars, moVars, cpVars, coVars, ss_in, ss_poly>>

\* one iteration of the loop: fresh random ordinates, interpolate, the degree
\* test, and on success the shares and the break
SsIterate ==
    /\ ss_pc = "loop"
    /\ \E rand \in [1 .. ss_in.threshold - 1 -> F] :
          LET xs == SsAbscissae(ss_in.password, ss_in.threshold)
              ys == <<ss_in.secret>> \o rand
              poly == interpolate(xs, ys)
          IN /\ ss_poly' = poly
             /\ IF uni_degree(poly) = ss_in.threshold - 1
                THEN /\ ss_shares' = SsPushed(poly, ss_in.num_shares)
                     /\ ss_pc' = "done"
                ELSE /\ ss_shares' = ss_shares
                     /\ ss_pc' = "loop"
    /\ UNCHANGED <<coreVars, oracle, ckVars, trVars, moVars, cpVars, coVars, ss_in>>

NextSS == SsEnter \/ SsIterate

\* weak fairness of the loop body, with ENABLED written out: an iteration is
\* enabled exactly when the call is at "loop"
LoopFairness == []<>(ss_pc # "loop") \/ []<><<SsIterate>>_vars

\* the function is sequential code: a step that can run does run
SpecSS == InitSS /\ [][NextSS]_vars /\ WF_vars(SsEnter) /\ LoopFairness
----------------------------------------------------------------------------
(* Claims about sumcheck over one multilinear polynomial (SpecSC) *)

VerifyReturned == vf_pc = "done"

\* verify was handed the prover's polynomial and the prover's proof
HonestRun == vf_pc # "idle" /\ vf_poly = sc_poly /\ vf_proof = ProverProof

\* verify was handed the prover's proof and another polynomial of the same arity
SwappedRun ==
    /\ vf_pc # "idle" /\ vf_proof = ProverProof
    /\ vf_poly # sc_poly /\ n_vars(vf_poly) = n_vars(sc_poly)

\* C1: verify(P, prove(P, s)) returns true when s is the sum of P's evaluation
\* table, for every number of variables n >= 0; no round check fails on the way.
C1_Completeness ==
    (HonestRun /\ sc_sum = TrueSum(sc_poly)) =>
        /\ vf_res # "reject"
        /\ VerifyReturned => vf_res = "accept"

\* an honest proof of two rounds accepted, with a challenge other than 0 and 1
C1_Witness ==
    /\ HonestRun /\ sc_sum = TrueSum(sc_poly) /\ VerifyReturned
    /\ n_vars(sc_poly) = 2 /\ vf_res = "accept"
    /\ vf_ch[1] = 2 /\ sc_poly[1] # sc_poly[3]

\* C3: verify(P, prove(P, s)) returns false for every s other than the sum of
\* P's evaluation table.
C3_WrongSumRejected ==
    (HonestRun /\ sc_sum # TrueSum(sc_poly) /\ VerifyReturned) => vf_res = "reject"

\* a wrong sum rejected by the first round check of a two-variable polynomial
C3_Witness ==
    /\ HonestRun /\ sc_sum # TrueSum(sc_poly) /\ VerifyReturned
    /\ n_vars(sc_poly) = 2 /\ vf_res = "reject" /\ vf_log.checks = 1

\* a wrong sum rejected by the oracle check of a constant polynomial
C3_WitnessConstant ==
    /\ HonestRun /\ sc_sum # TrueSum(sc_poly) /\ VerifyReturned
    /\ n_vars(sc_poly) = 0 /\ vf_res = "reject" /\ vf_log.evals = 1

C6_ArityMismatchRejected ==
    (vf_pc # "idle" /\ Len(vf_proof.round_polynomials) # n_vars(vf_poly)) =>
        /\ VerifyReturned
        /\ vf_res = "reject"
        /\ vf_log = [checks |-> 0, evals |-> 0]
        /\ vf_ch = <<>> /\ vf_tr = <<>>

\* a proof one round short, and a proof one round long, both rejected
C6_Witness ==
    /\ VerifyReturned /\ vf_res = "reject"
    /\ n_vars(vf_poly) = 2
    /\ Len(vf_proof.round_polynomials) \in {1, 3}

----------------------------------------------------------------------------
(* Claims about MultilinearPolynomial (SpecML) *)

\* the point `others` with x inserted at variable v (v counted from 0)
InsertAt(others, v, x) ==
    [k \in 1 .. (Len(others) + 1) |->
        IF k < v + 1 THEN others[k] ELSE IF k = v + 1 THEN x ELSE others[k - 1]]

\* C7: P.partial_evaluate(x, v).evaluate(the other values in variable order)
\* equals P.evaluate(the full point with x at position v), for n >= 1, v < n.
C7_PartialEvaluationLaw ==
    (ml_op = "partial_evaluate" /\ n_vars(ml_poly) >= 1
        /\ ml_args[1][2] < n_vars(ml_poly)) =>
        LET x == ml_args[1][1]
            v == ml_args[1][2]
        IN /\ ml_res.ok
           /\ n_vars(ml_res.evals) = n_vars(ml_poly) - 1
           /\ \A others \in [1 .. (n_vars(ml_poly) - 1) -> F] :
                 evaluate(ml_res.evals, others) = evaluate(ml_poly, InsertAt(others, v, x))

\* the last variable of a two-variable polynomial fixed to a value other than
\* 0 and 1, the polynomial depending on both variables
C7_Witness ==
    /\ ml_op = "partial_evaluate" /\ n_vars(ml_poly) = 2 /\ ml_res.ok
    /\ ml_args = << <<2, 1>> >>
    /\ ml_poly = <<0, 1, 1, 1>>
    /\ ml_res.evals = <<2, 1>>

IsBoolean(pt) == \A k \in 1 .. Len(pt) : pt[k] \in {0, 1}

\* the index whose bit k, counted from the most significant of n, is b[k]
RECURSIVE MsbFirstIndex(_)
MsbFirstIndex(b) ==
    IF b = <<>> THEN 0 ELSE Head(b) * Pow2(Len(b) - 1) + MsbFirstIndex(Tail(b))

\* C8: P.evaluate(b) = evals[i] for the Boolean point b whose coordinate k is
\* bit k of i counted from the most significant of the n bits.
C8_HypercubeRoundTrip ==
    (ml_op = "evaluate" /\ Len(ml_args) = n_vars(ml_poly) /\ IsBoolean(ml_args)) =>
        /\ ml_res.ok
        /\ ml_res.evals = <<ml_poly[MsbFirstIndex(ml_args) + 1]>>

\* the point (1, 0) reads entry 2 of a table whose entries 1 and 2 differ
C8_Witness ==
    /\ ml_op = "evaluate" /\ ml_args = <<1, 0>>
    /\ ml_poly = <<0, 1, 0, 1>> /\ ml_res = [ok |-> TRUE, evals |-> <<0>>]

DistinctInRange(points, n) ==
    /\ \A i \in 1 .. Len(points) : points[i][2] < n
    /\ ~HasRepeatedIndex(points)

IndexPermutations(k) == {f \in [1 .. k -> 1 .. k] : \A i, j \in 1 .. k : f[i] = f[j] => i = j}

\* partial_evaluate applied one point at a time, largest variable index first
RECURSIVE OneAtATimeDescending(_, _)
OneAtATimeDescending(evals, pts) ==
    IF pts = {} THEN [ok |-> TRUE, evals |-> evals]
    ELSE LET p == CHOOSE q \in pts : \A o \in pts : o[2] <= q[2]
             r == partial_evaluate(evals, p[1], p[2])
         IN IF r.ok THEN OneAtATimeDescending(r.evals, pts \ {p}) ELSE Panic

\* C9: for pairwise distinct in-range indices, partial_evaluate_many_vars
\* returns the same polynomial for every permutation of the points list, and
\* that polynomial is partial_evaluate applied one point at a time in order of
\* decreasing variable index.
C9_OrderIndependence ==
    (ml_op = "partial_evaluate_many_vars" /\ DistinctInRange(ml_args, n_vars(ml_poly))) =>
        /\ ml_res.ok
        /\ \A f \in IndexPermutations(Len(ml_args)) :
              partial_evaluate_many_vars(ml_poly,
                  [k \in 1 .. Len(ml_args) |-> ml_args[f[k]]]) = ml_res
        /\ ml_res = OneAtATimeDescending(ml_poly,
                        {ml_args[k] : k \in 1 .. Len(ml_args)})

\* two points given in ascending index order, with different values
C9_Witness ==
    /\ ml_op = "partial_evaluate_many_vars" /\ ml_res.ok
    /\ ml_args = << <<2, 0>>, <<1, 1>> >>
    /\ ml_poly = <<0, 1, 0, 0>>
    /\ ml_res.evals = <<2>>

\* C10 as stated: partial_evaluate_many_vars aborts whenever two entries of the
\* points list name the same variable index.
C10_RepeatsRejected ==
    (ml_op = "partial_evaluate_many_vars" /\ HasRepeatedIndex(ml_args)) => ~ml_res.ok

\* number of entries of the points list that name an index >= k
CountAtLeast(points, k) == Cardinality({j \in 1 .. Len(points) : points[j][2] >= k})

\* C10 amended: repeated indices are not rejected.  The call aborts exactly
\* when, for some k in 0..n, more than n - k entries name an index >= k (the
\* list is longer than n, or after the descending sort entry j names an index
\* >= n - j); otherwise it returns a polynomial of n - |points| variables.
C10_AbortsExactlyOnOverflow ==
    (ml_op = "partial_evaluate_many_vars") =>
        LET n == n_vars(ml_poly) IN
        /\ ~ml_res.ok <=> \E k \in 0 .. n : CountAtLeast(ml_args, k) > n - k
        /\ ml_res.ok => Len(ml_res.evals) = Pow2(n - Len(ml_args))

\* [(2,0),(1,0)] on a two-variable polynomial returns a constant
C10_Witness ==
    /\ ml_op = "partial_evaluate_many_vars" /\ n_vars(ml_poly) = 2
    /\ ml_args = << <<2, 0>>, <<1, 0>> >>
    /\ ml_res.ok /\ Len(ml_res.evals) = 1

\* C26: for a points list whose indices are pairwise distinct and each < n, in
\* any order, partial_evaluate_many_vars does not abort and returns a
\* polynomial of exactly n - |points| variables; it aborts when some index is
\* >= n.
C26_NoSpuriousAbort ==
    (ml_op = "partial_evaluate_many_vars") =>
        LET n == n_vars(ml_poly) IN
        /\ DistinctInRange(ml_args, n) =>
              /\ ml_res.ok
              /\ Len(ml_res.evals) = Pow2(n - Len(ml_args))
              /\ n_vars(ml_res.evals) = n - Len(ml_args)
        /\ (\E j \in 1 .. Len(ml_args) : ml_args[j][2] >= n) => ~ml_res.ok

\* both variables of a two-variable polynomial fixed, given in ascending order
C26_Witness ==
    /\ ml_op = "partial_evaluate_many_vars" /\ n_vars(ml_poly) = 2
    /\ ml_args = << <<1, 0>>, <<2, 1>> >>
    /\ ml_res.ok /\ Len(ml_res.evals) = 1

\* an in-range point next to one whose index is n aborts
C26_WitnessOutOfRange ==
    /\ ml_op = "partial_evaluate_many_vars" /\ n_vars(ml_poly) = 1
    /\ ml_args = << <<1, 0>>, <<2, 1>> >>
    /\ ~ml_res.ok

\* the points list [(x_0, 0), (x_1, 1), .., (x_{n-1}, n-1)] of a point
Indexed(pt) == [k \in 1 .. Len(pt) |-> <<pt[k], k - 1>>]

\* C11: P.evaluate(point) is the single entry of
\* P.partial_evaluate_many_vars([(x_0,0), .., (x_{n-1},n-1)]) when |point| = n,
\* and evaluate aborts when |point| # n.
C11_EvaluateAgreesWithManyVars ==
    (ml_op = "evaluate") =>
        IF Len(ml_args) = n_vars(ml_poly)
        THEN /\ ml_res.ok
             /\ partial_evaluate_many_vars(ml_poly, Indexed(ml_args)).ok
             /\ ml_res.evals = partial_evaluate_many_vars(ml_poly, Indexed(ml_args)).evals
        ELSE ~ml_res.ok

\* a two-variable polynomial that is not symmetric in its variables, evaluated
\* at a point with two different coordinates outside {0, 1} x {0, 1}
C11_Witness ==
    /\ ml_op = "evaluate" /\ ml_res.ok
    /\ ml_poly = <<0, 1, 0, 0>> /\ ml_args = <<2, 1>>
    /\ ml_res.evals = <<2>>

\* evaluate called with one coordinate too few
C11_WitnessAbort ==
    /\ ml_op = "evaluate" /\ ~ml_res.ok
    /\ n_vars(ml_poly) = 2 /\ Len(ml_args) = 1

----------------------------------------------------------------------------
(* Claims about the layered circuit (SpecCK) *)

\* the number of wires of layer i (1 = output layer), k + 1 being the input
WireCount(layers, input, i) ==
    IF i = Len(layers) + 1 THEN Len(input)
    ELSE LET outs == {layers[i][j].output : j \in 1 .. Len(layers[i])}
         IN IF outs = {} THEN 1 ELSE (CHOOSE m \in outs : \A o \in outs : o <= m) + 1

\* every gate reads wires that the layer below has
OperandsInBounds(layers, input) ==
    \A i \in 1 .. Len(layers) : \A j \in 1 .. Len(layers[i]) :
        /\ layers[i][j].left_index < WireCount(layers, input, i + 1)
        /\ layers[i][j].right_index < WireCount(layers, input, i + 1)

\* what gate g contributes, given the values of the layer below
GateValue(g, below) ==
    IF g.op = "Add" THEN FAdd(below[g.left_index + 1], below[g.right_index + 1])
    ELSE FMul(below[g.left_index + 1], below[g.right_index + 1])

\* the sum of the contributions of all gates that write position o
SumOverGates(gates, o, below) ==
    SumSeq([j \in 1 .. Len(gates) |->
               IF gates[j].output = o THEN GateValue(gates[j], below) ELSE 0])

\* the circuit with the gates of layer i reordered by f
WithLayerPermuted(layers, i, f) ==
    [layers EXCEPT ![i] = [j \in 1 .. Len(layers[i]) |-> layers[i][f[j]]]]

\* C12: on a circuit of k layers whose gate operands are in bounds, evaluate
\* leaves k + 1 vectors w_0..w_k in layer_evals with w_k the input, w_i[o] the
\* sum over all gates of layer i with out = o of (w_{i+1}[l] op w_{i+1}[r])
\* (zero when no gate writes o), returns w_0, and the result does not depend
\* on the order of the gates inside a layer.
C12_EvaluationAccumulates ==
    (ck_op = "evaluate" /\ OperandsInBounds(ck_layers, ck_input)) =>
        LET k == Len(ck_layers)
            w == ck_res.layer_evals
        IN /\ ck_res.ok
           /\ Len(w) = k + 1
           /\ w[k + 1] = ck_input
           /\ \A i \in 1 .. k :
                 /\ Len(w[i]) = WireCount(ck_layers, ck_input, i)
                 /\ \A o \in 1 .. Len(w[i]) :
                       w[i][o] = SumOverGates(ck_layers[i], o - 1, w[i + 1])
           /\ ck_res.ret = w[1]
           /\ \A i \in 1 .. k : \A f \in IndexPermutations(Len(ck_layers[i])) :
                 circuit_evaluate(WithLayerPermuted(ck_layers, i, f), ck_input) = ck_res

\* two gates of layer 1 write position 1 with contributions 2 and 1, no gate
\* writes position 0
C12_Witness ==
    /\ ck_op = "evaluate" /\ ck_res.ok
    /\ ck_input = <<2, 1, 1, 2>>
    /\ ck_layers = << <<Gate("Add", 0, 0, 1)>>,
                      <<Gate("Mul", 1, 0, 1), Gate("Mul", 1, 2, 3)>> >>
    /\ ck_res.layer_evals = << <<1>>, <<0, 1>>, <<2, 1, 1, 2>> >>
    /\ ck_res.ret = <<1>>

\* C13 as stated: whenever evaluate completes, |w_0| = 1 and |w_i| = 2^i for
\* i >= 1.
C13_LayerSizes ==
    (ck_op = "evaluate" /\ ck_res.ok) =>
        \A i \in 1 .. Len(ck_res.layer_evals) :
            Len(ck_res.layer_evals[i]) = Pow2(i - 1)

\* C13 amended: whenever evaluate completes on a circuit of k layers, |w_k| is
\* the length of the input and |w_i| = 1 + the largest out of layer i (1 for a
\* layer without gates); the sizes are 1, 2, 4, .. only for circuits and inputs
\* built that way.
C13_LayerSizesFollowGates ==
    (ck_op = "evaluate" /\ ck_res.ok) =>
        LET k == Len(ck_layers)
            w == ck_res.layer_evals
        IN /\ Len(w) = k + 1
           /\ \A i \in 1 .. (k + 1) : Len(w[i]) = WireCount(ck_layers, ck_input, i)
           /\ (\A i \in 1 .. (k + 1) : Len(w[i]) = Pow2(i - 1))
              <=> (\A i \in 1 .. (k + 1) : WireCount(ck_layers, ck_input, i) = Pow2(i - 1))

\* a one-layer circuit with outputs 0 and 1, as in the repository's test of
\* w_i_polynomial: w_0 has two entries
C13_Witness ==
    /\ ck_op = "evaluate" /\ ck_res.ok
    /\ ck_layers = << <<Gate("Add", 0, 0, 1), Gate("Mul", 1, 0, 1)>> >>
    /\ ck_input = <<1, 2>>
    /\ ck_res.layer_evals = << <<0, 2>>, <<1, 2>> >>

\* out*2^(2i+2) + l*2^(i+1) + r
ConcatenatedIndex(i, out, l, r) == out * Pow2(2 * i + 2) + l * Pow2(i + 1) + r

\* C14: for every layer index i >= 0 and out < 2^i, l < 2^(i+1), r < 2^(i+1),
\* get_positional_index(i, out, l, r) = out*2^(2i+2) + l*2^(i+1) + r (for
\* i = 0, out = 0 contributes one leading zero bit).
C14_PositionalIndex ==
    (ck_op = "get_positional_index"
        /\ wr_args[2] < Pow2(wr_args[1])
        /\ wr_args[3] < Pow2(wr_args[1] + 1)
        /\ wr_args[4] < Pow2(wr_args[1] + 1)) =>
        wr_res = ConcatenatedIndex(wr_args[1], wr_args[2], wr_args[3], wr_args[4])

\* layer_index = 2, out = 2, l = 3, r = 4 gives 10 011 100 = 156
C14_Witness ==
    /\ ck_op = "get_positional_index"
    /\ wr_args = <<2, 2, 3, 4>> /\ wr_res = 156

\* layer_index = 0, out = 0, l = 1, r = 0 gives 0 1 0 = 2
C14_WitnessLayerZero ==
    /\ ck_op = "get_positional_index"
    /\ wr_args = <<0, 0, 1, 0>> /\ wr_res = 2

\* the layer holds exactly 2^i gates, every one with out < 2^i, l, r < 2^(i+1)
FullLayerInRange(gates) ==
    /\ gates # <<>>
    /\ Len(gates) = Pow2(ILog2(Len(gates)))
    /\ \A j \in 1 .. Len(gates) :
          /\ gates[j].output < Pow2(ILog2(Len(gates)))
          /\ gates[j].left_index < Pow2(ILog2(Len(gates)) + 1)
          /\ gates[j].right_index < Pow2(ILog2(Len(gates)) + 1)

\* the positional indices of the gates of one kind
IndicesOfKind(gates, op) ==
    {ConcatenatedIndex(ILog2(Len(gates)), gates[j].output,
                       gates[j].left_index, gates[j].right_index) :
        j \in {x \in 1 .. Len(gates) : gates[x].op = op}}

DistinctTriples(gates) ==
    \A x, y \in 1 .. Len(gates) :
        (x # y) => <<gates[x].output, gates[x].left_index, gates[x].right_index>>
                   # <<gates[y].output, gates[y].left_index, gates[y].right_index>>

OnesOf(table) == {p \in 0 .. (Len(table) - 1) : table[p + 1] = 1}

\* C15: for a layer of exactly 2^i gates with out < 2^i and l, r < 2^(i+1),
\* add_i_and_mul_i_polynomials returns two 0/1 tables of length 2^(3i+2) (8
\* when i = 0) with add_i[p] = 1 exactly at the positional indices of the Add
\* gates and mul_i[p] = 1 exactly at those of the Mul gates; with pairwise
\* distinct gate triples each table has as many 1 entries as gates of its kind.
C15_WiringIndicators ==
    (ck_op = "add_i_and_mul_i_polynomials" /\ FullLayerInRange(wr_layer)) =>
        LET i == ILog2(Len(wr_layer))
            size == IF i = 0 THEN 8 ELSE Pow2(3 * i + 2)
        IN /\ wr_res.ok
           /\ Len(wr_res.add_i) = size /\ Len(wr_res.mul_i) = size
           /\ \A p \in 1 .. size : wr_res.add_i[p] \in {0, 1} /\ wr_res.mul_i[p] \in {0, 1}
           /\ OnesOf(wr_res.add_i) = IndicesOfKind(wr_layer, "Add")
           /\ OnesOf(wr_res.mul_i) = IndicesOfKind(wr_layer, "Mul")
           /\ DistinctTriples(wr_layer) =>
                 /\ Cardinality(OnesOf(wr_res.add_i))
                      = Cardinality({j \in 1 .. Len(wr_layer) : wr_layer[j].op = "Add"})
                 /\ Cardinality(OnesOf(wr_res.mul_i))
                      = Cardinality({j \in 1 .. Len(wr_layer) : wr_layer[j].op = "Mul"})

\* the layer of four gates of the repository's eight-input test: tables of 256
\* entries, add_i set at 1 and 165, mul_i at 83 and 247
C15_Witness ==
    /\ ck_op = "add_i_and_mul_i_polynomials" /\ wr_res.ok
    /\ wr_layer = <<Gate("Add", 0, 0, 1), Gate("Mul", 1, 2, 3),
                    Gate("Add", 2, 4, 5), Gate("Mul", 3, 6, 7)>>
    /\ Len(wr_res.add_i) = 256
    /\ OnesOf(wr_res.add_i) = {1, 165}
    /\ OnesOf(wr_res.mul_i) = {83, 247}

\* a layer of one gate: tables of 8 entries
C15_WitnessLayerZero ==
    /\ ck_op = "add_i_and_mul_i_polynomials" /\ wr_res.ok
    /\ wr_layer = <<Gate("Mul", 0, 1, 0)>>
    /\ Len(wr_res.mul_i) = 8
    /\ OnesOf(wr_res.mul_i) = {2} /\ OnesOf(wr_res.add_i) = {}

\* the triples (out, l, r) with out < 2^i and l, r < 2^(i+1)
InRangeTriples(i) ==
    (0 .. Pow2(i) - 1) \X (0 .. Pow2(i + 1) - 1) \X (0 .. Pow2(i + 1) - 1)

TableSize(i) == IF i = 0 THEN 8 ELSE Pow2(3 * i + 2)

\* the (op, out, l, r) of the gates, each counted once
GatesOfKind(gates, op) == {gates[j] : j \in {x \in 1 .. Len(gates) : gates[x].op = op}}

\* C28: for every layer index i >= 0 two different triples (out, l, r) with
\* out < 2^i and l, r < 2^(i+1) get different values of get_positional_index,
\* every such value is < 2^(3i+2) (< 8 for i = 0), and so
\* add_i_and_mul_i_polynomials on in-range gates returns (no write outside
\* the tables) with one entry set per different gate.
C28_IndexInjective ==
    /\ (ck_op = "get_positional_index"
           /\ <<wr_args[2], wr_args[3], wr_args[4]>> \in InRangeTriples(wr_args[1])) =>
          /\ wr_res < TableSize(wr_args[1])
          /\ \A other \in InRangeTriples(wr_args[1]) :
                (other # <<wr_args[2], wr_args[3], wr_args[4]>>) =>
                    get_positional_index(wr_args[1], other[1], other[2], other[3]) # wr_res
    /\ (ck_op = "add_i_and_mul_i_polynomials" /\ wr_layer # <<>>
           /\ \A j \in 1 .. Len(wr_layer) :
                  <<wr_layer[j].output, wr_layer[j].left_index, wr_layer[j].right_index>>
                      \in InRangeTriples(ILog2(Len(wr_layer)))) =>
          /\ wr_res.ok
          /\ Cardinality(OnesOf(wr_res.add_i)) = Cardinality(GatesOfKind(wr_layer, "Add"))
          /\ Cardinality(OnesOf(wr_res.mul_i)) = Cardinality(GatesOfKind(wr_layer, "Mul"))

\* the largest in-range triple of layer index 2: 11 111 111 = 255 < 256
C28_Witness ==
    /\ ck_op = "get_positional_index"
    /\ wr_args = <<2, 3, 7, 7>> /\ wr_res = 255

\* the largest in-range triple of layer index 0: 0 1 1 = 3 < 8
C28_WitnessLayerZero ==
    /\ ck_op = "get_positional_index"
    /\ wr_args = <<0, 0, 1, 1>> /\ wr_res = 3

\* two in-range Add gates that differ in one operand set two entries
C28_WitnessWiring ==
    /\ ck_op = "add_i_and_mul_i_polynomials" /\ wr_res.ok
    /\ wr_layer = <<Gate("Add", 1, 3, 2), Gate("Add", 1, 3, 3)>>
    /\ OnesOf(wr_res.add_i) = {30, 31}

----------------------------------------------------------------------------
(* Claims about one Circuit object (SpecCO) *)

\* the vector w of layer i (1 = output layer, k + 1 = the input), for a
\* circuit whose gates read wires that exist
RECURSIVE WireValues(_, _, _)
WireValues(layers, input, i) ==
    IF i = Len(layers) + 1 THEN input
    ELSE [o \in 1 .. WireCount(layers, input, i) |->
             SumOverGates(layers[i], o - 1, WireValues(layers, input, i + 1))]

\* some evaluate call has returned
Evaluated == co_inputs # <<>>

LastInput == co_inputs[Len(co_inputs)]

\* C21: on a circuit of k layers add_i_and_mul_i_polynomials(i) aborts for
\* every i >= k; after evaluate, w_i_polynomial(i) aborts for every i > k and
\* returns the table w_i for every i <= k whose |w_i| is a power of two;
\* Circuit::new aborts on an empty layer list.
C21_OutOfRangeAborts ==
    /\ (co_last.op = "new") => (co_last.ok <=> co_layers # <<>>)
    /\ (co_last.op = "add_i_and_mul_i_polynomials" /\ co_last.arg >= Len(co_layers))
          => ~co_last.ok
    /\ (co_last.op = "w_i_polynomial" /\ Evaluated) =>
          LET k == Len(co_layers)
          IN /\ (co_last.arg > k) => ~co_last.ok
             /\ (co_last.arg <= k) =>
                   LET w_i == WireValues(co_layers, LastInput, co_last.arg + 1)
                   IN (\E e \in 0 .. Len(w_i) : Len(w_i) = Pow2(e)) =>
                          (co_last.ok /\ co_last.out = w_i)

\* w_i_polynomial(3) aborting on an evaluated circuit of two layers
C21_Witness ==
    /\ co_last.op = "w_i_polynomial" /\ ~co_last.ok
    /\ Evaluated /\ Len(co_layers) = 2 /\ co_last.arg = 3

\* w_1 of a two-layer circuit returned as a polynomial
C21_WitnessReturned ==
    /\ co_last.op = "w_i_polynomial" /\ co_last.ok
    /\ Len(co_layers) = 2 /\ co_last.arg = 1
    /\ LastInput = <<2, 1, 1, 2>>
    /\ co_last.out = <<0, 1>>

\* add_i_and_mul_i_polynomials(1) aborting on a circuit of one layer
C21_WitnessWiringAborts ==
    /\ co_last.op = "add_i_and_mul_i_polynomials" /\ ~co_last.ok
    /\ Len(co_layers) = 1 /\ co_layers[1] # <<>> /\ co_last.arg = 1

\* Circuit::new aborting on no layers
C21_WitnessNewAborts == co_last.op = "new" /\ ~co_last.ok /\ co_layers = <<>>

\* C25: after any sequence of evaluate calls on one circuit, layer_evals is
\* what one evaluate of the last input stores on a freshly constructed
\* circuit (w_0..w_k of that input, nothing of an earlier call), and the
\* layers and gates are the ones the circuit was built with.
C25_EvaluateRewrites ==
    [][Evaluated' =>
          /\ co_layers' = co_layers
          /\ co_evals' = circuit_evaluate(co_layers, LastInput').layer_evals
          /\ co_evals' = [i \in 1 .. (Len(co_layers) + 1) |->
                              WireValues(co_layers, LastInput', i)]]_vars

\* a second evaluate, on another input, replaced what the first one stored
C25_Witness ==
    /\ co_last.op = "evaluate" /\ co_last.ok
    /\ co_layers = << <<Gate("Mul", 0, 0, 1)>> >>
    /\ co_inputs = << <<1, 2>>, <<1, 1, 2, 0>> >>
    /\ co_evals = << <<1>>, <<1, 1, 2, 0>> >>

\* layer i (0 = output layer) holds exactly 2^i pairwise different gates with
\* out < 2^i and l, r < 2^(i+1)
RegularCircuit(layers) ==
    \A i \in 0 .. Len(layers) - 1 :
        LET gates == layers[i + 1]
        IN /\ Len(gates) = Pow2(i)
           /\ \A j \in 1 .. Len(gates) :
                 /\ gates[j].output < Pow2(i)
                 /\ gates[j].left_index < Pow2(i + 1)
                 /\ gates[j].right_index < Pow2(i + 1)
           /\ \A j1, j2 \in 1 .. Len(gates) : j1 # j2 => gates[j1] # gates[j2]

\* the value of wire b of a layer, 0 for a wire the layer does not have
WireAt(w, b) == IF b < Len(w) THEN w[b + 1] ELSE 0

\* sum over (b, c) of add_i[a||b||c] * (below[b] + below[c])
\*                  + mul_i[a||b||c] * (below[b] * below[c])
WiringSum(i, a, add_i, mul_i, below) ==
    LET N == Pow2(i + 1)
    IN SumSeq([p \in 1 .. N * N |->
                  LET b == (p - 1) \div N
                      c == (p - 1) % N
                      at == ConcatenatedIndex(i, a, b, c) + 1
                  IN FAdd(FMul(add_i[at], FAdd(WireAt(below, b), WireAt(below, c))),
                          FMul(mul_i[at], FMul(WireAt(below, b), WireAt(below, c))))])

\* C27: for a circuit in which layer i holds exactly 2^i pairwise different
\* gates with out < 2^i and l, r < 2^(i+1), after evaluate every position a of
\* every layer i satisfies w_i[a] = sum over (b, c) of
\* add_i[a||b||c] * (w_{i+1}[b] + w_{i+1}[c]) + mul_i[a||b||c] * (w_{i+1}[b] * w_{i+1}[c])
\* with add_i, mul_i the tables of add_i_and_mul_i_polynomials(i).
C27_LayerConsistency ==
    (/\ co_last.op = "add_i_and_mul_i_polynomials" /\ co_last.arg < Len(co_layers)
     /\ Evaluated /\ RegularCircuit(co_layers)) =>
        LET i == co_last.arg
            w_i == co_evals[i + 1]
        IN /\ co_last.ok
           /\ \A a \in 0 .. Len(w_i) - 1 :
                 w_i[a + 1] = WiringSum(i, a, co_last.out[1], co_last.out[2],
                                        co_evals[i + 2])

\* the tables of layer 1 of a two-layer circuit against w_1 = [2, 2]
C27_Witness ==
    /\ co_last.op = "add_i_and_mul_i_polynomials" /\ co_last.ok /\ co_last.arg = 1
    /\ co_layers = << <<Gate("Mul", 0, 0, 1)>>,
                      <<Gate("Add", 0, 0, 1), Gate("Add", 1, 2, 3)>> >>
    /\ co_inputs = << <<1, 1, 2, 0>> >>
    /\ co_evals = << <<1>>, <<2, 2>>, <<1, 1, 2, 0>> >>

\* the tables of layer 0 of the same circuit against w_0 = [1]
C27_WitnessLayerZero ==
    /\ co_last.op = "add_i_and_mul_i_polynomials" /\ co_last.ok /\ co_last.arg = 0
    /\ RegularCircuit(co_layers) /\ Len(co_layers) = 2
    /\ co_inputs = << <<1, 1, 2, 0>> >>
    /\ co_evals[1] = <<1>> /\ co_evals[2] = <<2, 2>>

----------------------------------------------------------------------------
(* Claims about the transcript (SpecTR) *)

\* the values the squeezes among ops return when the k-th digest is
\* h_k = H(h_{k-1} || the bytes appended since the previous squeeze), h_0 empty;
\* <<-1>> when that string was never hashed
RECURSIVE SqueezeChain(_, _, _)
SqueezeChain(ops, prev, since) ==
    IF ops = <<>> THEN <<>>
    ELSE IF Head(ops).kind = "sample_field_element"
         THEN IF (prev \o since) \in DOMAIN oracle
              THEN <<oracle[prev \o since] % Modulus>>
                   \o SqueezeChain(Tail(ops), <<oracle[prev \o since]>>, <<>>)
              ELSE <<-1>>
         ELSE SqueezeChain(Tail(ops), prev,
                           since \o (IF Head(ops).kind = "append" THEN Head(ops).data
                                     ELSE <<Head(ops).element>>))

\* every transcript has applied every operation of tr_ops
Synced == tr_pc = "t1"

\* C16: the k-th squeeze returns from_be_bytes_mod_order(h_k) with
\* h_k = H(h_{k-1} || all bytes appended since the previous squeeze), h_0 the
\* empty string; the hasher holds the same bytes however they were split
\* across append calls, and append_field_element(e) absorbs e's bytes.
C16_SqueezeChain ==
    /\ tr_out1 = SqueezeChain(tr_ops, <<>>, <<>>)
    /\ Synced => (tr_h3 = tr_h1 /\ tr_out3 = SqueezeChain(tr_ops, <<>>, <<>>))

\* squeeze, append_field_element(2), squeeze: the second digest hashes the
\* first digest followed by the byte of 2, and the first digest 3 reduces to 0
C16_Witness ==
    /\ Synced /\ Len(tr_ops) = 3
    /\ tr_ops[1].kind = "sample_field_element"
    /\ tr_ops[2].kind = "append_field_element" /\ tr_ops[2].element = 2
    /\ tr_ops[3].kind = "sample_field_element"
    /\ oracle[<<>>] = 3 /\ oracle[<<3, 2>>] = 1
    /\ tr_out1 = <<0, 1>>

\* two bytes in one append, one more append, then a squeeze
C16_WitnessSplit ==
    /\ Synced /\ Len(tr_ops) = 3
    /\ tr_ops[1].kind = "append" /\ tr_ops[1].data = <<1, 0>>
    /\ tr_ops[2].kind = "append" /\ tr_ops[2].data = <<1>>
    /\ tr_ops[3].kind = "sample_field_element"
    /\ oracle[<<1, 0, 1>>] = 2 /\ tr_out3 = <<2>>

----------------------------------------------------------------------------
(* Claims about chains of MultilinearPolynomial operations (SpecMO) *)

PowersOfTwo == {Pow2(k) : k \in 0 .. (MaxVars + 1)}

\* C18: new aborts for every length that is not a power of two (0 included);
\* every polynomial reached from a valid one through scalar_mul,
\* partial_evaluate, partial_evaluate_many_vars, tensor_add and tensor_mul has
\* |evals| = 2^n_vars; tensor_add and tensor_mul abort when the operand has
\* another length.
C18_PowerOfTwoLength ==
    /\ (mo_last.op = "new") => (mo_last.ok <=> (mo_last.arg \in PowersOfTwo))
    /\ (mo_last.op # "raw" /\ ~(mo_last.op = "new" /\ ~mo_last.ok)) =>
          /\ Len(mo_cur) \in PowersOfTwo
          /\ Len(mo_cur) = Pow2(n_vars(mo_cur))
    /\ (mo_last.op \in {"tensor_add", "tensor_mul"}) =>
          (mo_last.ok <=> (mo_last.arg = Len(mo_cur)))

\* a one-variable polynomial with every entry 2, reached by tensor_add from
\* a 0/1 table
C18_Witness ==
    /\ mo_last = [op |-> "tensor_add", ok |-> TRUE, arg |-> 2]
    /\ mo_cur = <<2, 2>>

\* new refusing three entries, and tensor_mul refusing an operand of two
\* entries on a polynomial of four
C18_WitnessNewAborts == mo_last = [op |-> "new", ok |-> FALSE, arg |-> 3]

C18_WitnessTensorAborts ==
    /\ mo_last = [op |-> "tensor_mul", ok |-> FALSE, arg |-> 2]
    /\ Len(mo_cur) = 4

----------------------------------------------------------------------------
(* Claims about ProductPolynomial and SumPolynomial (SpecCP) *)

\* C19: every SumPolynomial that SumPolynomial::new returns is a non-empty
\* sequence of products that all have the same number of variables and the
\* same arity d, so that degree() is the arity of every product.
C19_SumShape ==
    (cp_op = "sum_new" /\ cp_res.ok) =>
        /\ cp_res.out # <<>>
        /\ \A i \in 1 .. Len(cp_res.out) :
              /\ \A k \in 1 .. Len(cp_res.out[i]) :
                    n_vars(cp_res.out[i][k]) = n_vars(cp_res.out[1][1])
              /\ Len(cp_res.out[i]) = sum_degree(cp_res.out)

\* entry k of the element-wise product of the factor tables
RECURSIVE ProductAt(_, _)
ProductAt(polys, k) ==
    IF polys = <<>> THEN 1 % Modulus ELSE FMul(Head(polys)[k], ProductAt(Tail(polys), k))

\* entry k of the element-wise sum of the products' element-wise products
RECURSIVE SumAt(_, _)
SumAt(products, k) ==
    IF products = <<>> THEN 0
    ELSE FAdd(ProductAt(Head(products), k), SumAt(Tail(products), k))

HasShortProduct(products) == \E i \in 1 .. Len(products) : Len(products[i]) < 2

\* C20: ProductPolynomial::reduce aborts on fewer than two factors and
\* otherwise returns the element-wise product of all factor tables;
\* SumPolynomial::reduce aborts on fewer than two products (and when a
\* product's reduce aborts) and otherwise returns the element-wise sum of the
\* products' reduce(); prove(S) aborts for every S with a single product or
\* with a product of arity 1.
C20_ReducePreconditions ==
    /\ (cp_op = "product_reduce") =>
          /\ cp_res.ok <=> (Len(cp_in) >= 2)
          /\ cp_res.ok =>
                cp_res.out = [k \in 1 .. Len(cp_in[1]) |-> ProductAt(cp_in, k)]
    /\ (cp_op = "sum_reduce") =>
          /\ cp_res.ok <=> (Len(cp_in) >= 2 /\ ~HasShortProduct(cp_in))
          /\ cp_res.ok =>
                cp_res.out = [k \in 1 .. Len(cp_in[1][1]) |-> SumAt(cp_in, k)]
    /\ (cp_op = "sum_new" /\ sp_pc # "idle") =>
          ((Len(sop_poly) < 2 \/ HasShortProduct(sop_poly)) <=> (sp_pc = "panic"))

\* reduce of a sum of two products of two one-variable factors
C20_Witness ==
    /\ cp_op = "sum_reduce" /\ cp_res.ok
    /\ cp_in = << << <<1, 1>>, <<0, 1>> >>, << <<1, 1>>, <<1, 1>> >> >>
    /\ cp_res.out = <<1, 2>>

\* prove aborting on a single product of two factors
C20_WitnessProveAborts ==
    /\ cp_op = "sum_new" /\ sp_pc = "panic"
    /\ Len(sop_poly) = 1 /\ Len(sop_poly[1]) = 2

\* prove aborting on two products of one factor each
C20_WitnessArityOne ==
    /\ cp_op = "sum_new" /\ sp_pc = "panic"
    /\ Len(sop_poly) = 2 /\ Len(sop_poly[1]) = 1 /\ Len(sop_poly[2]) = 1

\* reduce aborting on a product of one factor
C20_WitnessProductAborts ==
    /\ cp_op = "product_reduce" /\ ~cp_res.ok /\ Len(cp_in) = 1

\* the Lagrange weight of hypercube index k (0-based, first variable the most
\* significant bit) at the point xs
RECURSIVE Weight(_, _)
Weight(xs, k) ==
    IF xs = <<>> THEN 1 % Modulus
    ELSE LET half == Pow2(Len(xs) - 1)
         IN FMul(IF k >= half THEN Head(xs) ELSE FSub(1, Head(xs)),
                 Weight(Tail(xs), k % half))

\* the multilinear extension of a table at xs, from its definition
MleAt(evals, xs) ==
    SumSeq([k \in 1 .. Len(evals) |-> FMul(evals[k], Weight(xs, k - 1))])

RECURSIVE ProductValue(_, _)
ProductValue(polys, xs) ==
    IF polys = <<>> THEN 1 % Modulus
    ELSE FMul(MleAt(Head(polys), xs), ProductValue(Tail(polys), xs))

\* the value of the sum of products at xs
RECURSIVE SumValue(_, _)
SumValue(products, xs) ==
    IF products = <<>> THEN 0
    ELSE FAdd(ProductValue(Head(products), xs), SumValue(Tail(products), xs))

\* the sum of S over every Boolean setting of the variables after `fixed`
RECURSIVE BooleanSum(_, _)
BooleanSum(products, fixed) ==
    IF Len(fixed) = sum_n_vars(products) THEN SumValue(products, fixed)
    ELSE FAdd(BooleanSum(products, Append(fixed, 0)),
              BooleanSum(products, Append(fixed, 1)))

\* C22: in partial_prove, for every round j in [0, n), the round polynomial
\* U_j has degree at most d, U_j(X) is the sum over the Boolean hypercube of
\* the current polynomial (S with its first j variables fixed to r_0..r_{j-1})
\* with its variable 0 fixed to X, and U_j(0) + U_j(1) is claimed_sum for
\* j = 0 and U_{j-1}(r_{j-1}) for j > 0.
\* Stated of the round appended last: the earlier rounds' polynomials and
\* challenges are never rewritten, and each was the last one in an earlier state.
C22_RoundInvariant ==
    (cp_op = "sum_new" /\ sp_pc \in {"round", "done"}) =>
        \A j \in {Len(sp_out.round_polys)} \ {0} :
            LET U == sp_out.round_polys[j]
                rs == SubSeq(sp_out.challenges, 1, j - 1)
            IN /\ uni_degree(U) <= sum_degree(sop_poly)
               /\ \A X \in F : uni_evaluate(U, X) = BooleanSum(sop_poly, Append(rs, X))
               /\ FAdd(uni_evaluate(U, 0), uni_evaluate(U, 1))
                     = IF j = 1 THEN sp_out.claimed_sum
                       ELSE uni_evaluate(sp_out.round_polys[j - 1], sp_out.challenges[j - 1])

\* the second round of a proof whose first challenge is 2 and whose round
\* polynomials are not constant
C22_Witness ==
    /\ cp_op = "sum_new" /\ sp_pc = "done"
    /\ Len(sp_out.round_polys) = 2
    /\ sp_out.challenges[1] = 2
    /\ uni_evaluate(sp_out.round_polys[1], 0) # uni_evaluate(sp_out.round_polys[1], 2)
    /\ uni_evaluate(sp_out.round_polys[2], 0) # uni_evaluate(sp_out.round_polys[2], 1)

\* the Boolean point of hypercube index i (0-based) over n variables, first
\* variable the most significant bit
BooleanPoint(i, n) == [k \in 1 .. n |-> (i \div Pow2(n - k)) % 2]

\* the point b with x inserted as variable v
WithVariable(b, v, x) == SubSeq(b, 1, v) \o <<x>> \o SubSeq(b, v + 1, Len(b))

\* m >= 2 products of arity >= 2
ReducibleSum(products) ==
    /\ Len(products) >= 2
    /\ \A i \in 1 .. Len(products) : Len(products[i]) >= 2

\* the sum of S.evaluate over every Boolean point
HypercubeSum(products) ==
    LET n == sum_n_vars(products)
    IN SumSeq([k \in 1 .. Pow2(n) |-> sum_evaluate(products, BooleanPoint(k - 1, n)).val])

\* C29: for a SumPolynomial S of m >= 2 products of arity >= 2 over n
\* variables, S.reduce()[i] = S.evaluate(b_i) for every index i in [0, 2^n),
\* b_i the MSB-first Boolean point of i; the claimed_sum of partial_prove is
\* the sum of S.evaluate over the Boolean points; and S.partial_evaluate(x, v)
\* reduces to the table of S.evaluate at the Boolean points with x at v.
C29_ReduceIsEvaluateTable ==
    /\ (cp_op = "sum_reduce" /\ ReducibleSum(cp_in)) =>
          LET n == sum_n_vars(cp_in) IN
          /\ cp_res.ok /\ Len(cp_res.out) = Pow2(n)
          /\ \A i \in 0 .. Pow2(n) - 1 :
                LET e == sum_evaluate(cp_in, BooleanPoint(i, n))
                IN e.ok /\ cp_res.out[i + 1] = e.val
          /\ \A v \in 0 .. n - 1 : \A x \in F :
                LET pe == sum_partial_evaluate(cp_in, x, v)
                    table == sum_reduce(pe.products)
                IN /\ pe.ok /\ table.ok /\ Len(table.out) = Pow2(n - 1)
                   /\ \A i \in 0 .. Pow2(n - 1) - 1 :
                         LET e == sum_evaluate(cp_in, WithVariable(BooleanPoint(i, n - 1), v, x))
                         IN e.ok /\ table.out[i + 1] = e.val
    /\ (cp_op = "sum_new" /\ sp_pc \in {"round", "done"} /\ ReducibleSum(sop_poly)) =>
          sp_out.claimed_sum = HypercubeSum(sop_poly)

\* the table of a two-variable sum of two different products, its entries not
\* all equal
C29_Witness ==
    /\ cp_op = "sum_reduce" /\ ReducibleSum(cp_in) /\ sum_n_vars(cp_in) = 2
    /\ cp_res.ok
    /\ \E i, j \in 1 .. 4 : cp_res.out[i] # cp_res.out[j]
    /\ cp_in[1] # cp_in[2]

\* a proof of a two-variable sum whose claimed sum is not zero
C29_WitnessClaimedSum ==
    /\ cp_op = "sum_new" /\ sp_pc = "done" /\ ReducibleSum(sop_poly)
    /\ sum_n_vars(sop_poly) = 2
    /\ sp_out.claimed_sum # 0

----------------------------------------------------------------------------
(* Claims about sumcheck over a sum of products (SpecSOP) *)

SopReturned == sv_pc = "done"

\* verify was handed what prove returned
SopHonestRun ==
    /\ sv_pc # "idle"
    /\ sv_in = [claimed_sum |-> sp_out.claimed_sum, round_polys |-> sp_out.round_polys]

\* partial_verify has returned
PartialVerifyReturned == sv_pc \in {"oracle", "done"}

\* partial_verify returned true: every round polynomial of a non-empty list
\* passed its check
PartialVerifyTrue ==
    /\ PartialVerifyReturned
    /\ sv_in.round_polys # <<>>
    /\ Len(sv_ch) = Len(sv_in.round_polys)

\* C23: with T and T' holding the same absorbed bytes and (c, polys, rs) what
\* partial_prove(S, T) returned, partial_verify(T', c, polys) returns
\* (true, v, rs') with rs' = rs and v = S.evaluate(rs), and T and T' end in
\* the same state.
C23_TranscriptParity ==
    (SopHonestRun /\ PartialVerifyReturned) =>
        /\ PartialVerifyTrue
        /\ sv_ch = sp_out.challenges
        /\ sv_cs = sum_evaluate(sop_poly, sp_out.challenges).val
        /\ sv_tr = sp_tr

\* C23 for polynomials of at least one variable, where it does hold
C23_TranscriptParityFromOneVariable ==
    (sum_n_vars(sop_poly) >= 1) => C23_TranscriptParity

\* C2: for every sum S of m >= 2 products of arity d >= 2 over n >= 0
\* variables, n = 0 included, verify(S, claimed_sum, round_polys) returns true
\* on what prove(S) returned.
C2_SopCompleteness ==
    (SopHonestRun /\ SopReturned) => sv_res = "accept"

\* C2 for polynomials of at least one variable, where the code does accept
C2_SopCompletenessFromOneVariable ==
    (SopHonestRun /\ SopReturned /\ sum_n_vars(sop_poly) >= 1) => sv_res = "accept"

\* C5: on a list of round polynomials whose length differs from n, verify
\* returns false to the caller and does not abort.
C5_LengthMismatchReturnsFalse ==
    (SopReturned /\ Len(sv_in.round_polys) # sum_n_vars(sop_poly)) => sv_res = "reject"

----------------------------------------------------------------------------
(* Claims about the two provers (SpecPR) *)

\* the rounds done so far by prove: as many round polynomials as variables
\* fixed, and done exactly when all n are
ProveRounds ==
    (pr_pc \in {"round", "done"}) =>
        /\ Len(pr_rounds) <= n_vars(sc_poly)
        /\ n_vars(pr_cur) = n_vars(sc_poly) - Len(pr_rounds)
        /\ (pr_pc = "done") <=> (Len(pr_rounds) = n_vars(sc_poly))

\* the same for partial_prove, with as many challenges as round polynomials
SopProveRounds ==
    (sp_pc \in {"round", "done"}) =>
        /\ Len(sp_out.round_polys) <= sum_n_vars(sop_poly)
        /\ Len(sp_out.challenges) = Len(sp_out.round_polys)
        /\ sum_n_vars(sp_cur) = sum_n_vars(sop_poly) - Len(sp_out.round_polys)
        /\ (sp_pc = "done") <=> (Len(sp_out.round_polys) = sum_n_vars(sop_poly))

\* the prover that was called has returned
ProverDone ==
    /\ (sc_poly # <<>>) => pr_pc = "done"
    /\ (sop_poly # <<>>) => sp_pc = "done"

\* C24: for a polynomial of n variables, prove (single multilinear) and
\* partial_prove (sum of products) finish after exactly n iterations with
\* exactly n round polynomials (and n challenges for partial_prove); after
\* round j the working polynomial has n - j - 1 variables, 0 at the end.
C24_ProverTerminates == [](ProveRounds /\ SopProveRounds) /\ <>ProverDone

\* partial_prove returned on a polynomial of two variables
C24_Witness ==
    /\ sp_pc = "done" /\ sum_n_vars(sop_poly) = 2
    /\ Len(sp_out.round_polys) = 2 /\ Len(sp_out.challenges) = 2
    /\ sum_n_vars(sp_cur) = 0

\* prove returned on a polynomial of two variables
C24_WitnessMultilinear ==
    /\ pr_pc = "done" /\ n_vars(sc_poly) = 2
    /\ Len(pr_rounds) = 2 /\ n_vars(pr_cur) = 0

----------------------------------------------------------------------------
(* Claims about password-protected share generation (SpecSS) *)

\* shares has returned num_shares - 1 shares with abscissae 1 .. num_shares - 1
SharesReturned ==
    /\ ss_pc = "done"
    /\ Len(ss_shares) = ss_in.num_shares - 1
    /\ \A i \in 1 .. Len(ss_shares) : ss_shares[i][1] = FFrom(i)

\* the password is one of the abscissae 1 .. threshold - 1
PasswordIsAbscissa ==
    \E i \in 1 .. ss_in.threshold - 1 : ss_in.password = FFrom(i)

\* C30: for every secret, every password (one equal to an abscissa
\* 1 .. threshold - 1 included) and every threshold >= 1, the retry loop of
\* shares exits and returns exactly num_shares - 1 shares with abscissae
\* 1 .. num_shares - 1; the exit test compares degree() with threshold - 1.
C30_SharesTerminates ==
    /\ <>(ss_pc = "done")
    /\ [](ss_pc = "done" => SharesReturned /\ uni_degree(ss_poly) = ss_in.threshold - 1)

\* what holds: the loop exits in its first iteration unless the threshold is 2
\* and the password is the abscissa 1, and whenever it exits it returns those
\* shares
C30_TerminatesOffCollision ==
    /\ (ss_pc = "call" /\ ~(ss_in.threshold = 2 /\ PasswordIsAbscissa)) ~> (ss_pc = "done")
    /\ [](ss_pc = "done" => SharesReturned /\ uni_degree(ss_poly) = ss_in.threshold - 1)

\* with threshold 2 and password 1 every iteration interpolates a constant and
\* the loop is still running
C30_LoopRetries ==
    (ss_in.threshold = 2 /\ PasswordIsAbscissa) =>
        /\ ss_pc \in {"call", "loop"}
        /\ ss_poly # <<>> => uni_degree(ss_poly) = 0

====
